---- MODULE Spec2Model ----
(***************************************************************************)
(* Model of the deterministic simulation core of lua-x1:                   *)
(*   core/src/deterministic_sim.cpp  (InputQueue, snapshot/delta codec,    *)
(*   fixed-point physics, DemoServer).                                     *)
(*                                                                         *)
(* The module holds several specifications over one set of variables; a    *)
(* specification leaves the variables of the others untouched:             *)
(*   SpecQueue   one InputQueue used sequentially (push / popForTick)      *)
(*   Spec        one DemoServer: receiveInput, SpawnProjectile, tick       *)
(*   SpecDet     two independent runs of the DemoServer given the same     *)
(*               calls in the same order                                   *)
(*   SpecConc    one InputQueue with push running on an I/O thread while   *)
(*               popForTick runs on the simulation thread                  *)
(*   SpecDelta   the snapshot codec applied to pairs of snapshots          *)
(*   SpecGameplay one DemoServer driven by the gameplay API and tick       *)
(*   SpecMain    main(): the demo run of 40 ticks with its synthetic input *)
(*   SpecApi     one DemoServer whose whole gameplay API is called, both   *)
(*               directly and through the Lua bridge, between ticks        *)
(***************************************************************************)
EXTENDS Integers, Sequences, FiniteSets, TLC

VARIABLES
    queue,      \* InputQueue::queue of the queue under test
    lastOp,     \* observation of the last InputQueue call: arguments, result, queue before
    nOps,       \* number of InputQueue calls made so far (bounded by MaxOps)
    srv,        \* the DemoServer: server_tick, next_entity_id, entities, input_queues, ...
    snap,       \* the Snapshot returned by the last tick() (NoSnap before the first)
    srv2,       \* SpecDet: the DemoServer of a second, independent run
    snap2,      \* SpecDet: the Snapshot returned by the last tick() of the second run
    prod,       \* SpecConc: the I/O thread inside push: its position and its argument
    cons,       \* SpecConc: the simulation thread inside popForTick: its position,
                \* its argument and its locals c, res, remaining
    accepted,   \* SpecConc: the inputs for which push has returned true
    refSnap,    \* SpecDelta: the reference Snapshot (the last one sent)
    curSnap,    \* SpecDelta: the current Snapshot
    wire,       \* SpecDelta: the bytes returned by serializeDelta(curSnap, map of refSnap)
    full,       \* SpecDelta: the bytes returned by serializeFull(curSnap)
    decodedFull,\* SpecDelta: the receiver's decoding of the full encoding
    decoded,    \* SpecDelta: the receiver's state after applying the decoded delta
    codecPc,    \* SpecDelta: "start", "encoded" or "applied"
    tickLog,    \* observation of the last tick(): per queue, the batch drained and the
                \* velocity of the controlled entity before and after applying it
    nTicks,     \* number of tick() calls made so far
    nCalls,     \* number of receiveInput and gameplay API calls made so far
    spawnLog,   \* per projectile id: server tick at its spawn and its lifetime in ticks
    seenIn,     \* per projectile id: the ticks whose snapshot listed it
    fric,       \* velocity of entity 1001 when it was last set, and ticks run since
    lastCall,   \* SpecGameplay, SpecApi: observation of the last gameplay API call
                \* on srv: its arguments, its result and the state before it
    allocated,  \* SpecApi: the entity ids handed out so far, in order of allocation
    demo,       \* SpecMain: main() of the demo: its position and its locals server,
                \* seq, t, i, last_sent_snap, has_last, snap, full, delta
    deltaSizes, \* SpecMain: per tick, the delta size main printed
    reader,     \* SpecReader: a BufferReader over a wire buffer: data, size, offset,
                \* the build it runs in, and what its reads have touched
    packet,     \* SpecPacket: a ClientInputPacket: inputCount, inputs, and the bytes
                \* passed to addInput so far, in call order
    inputLog    \* SpecInputs: per receiveInput call, the input, the server tick at
                \* the call, the queue size before it, the result, and the ticks
                \* that drained the input

queueVars == <<queue, lastOp, nOps>>
serverVars == <<srv, snap, tickLog, nTicks, nCalls, spawnLog, seenIn, fric>>
secondVars == <<srv2, snap2>>
concVars == <<prod, cons, accepted>>
codecVars == <<refSnap, curSnap, wire, full, decoded, decodedFull, codecPc>>
gameplayVars == <<lastCall, allocated>>
mainVars == <<demo, deltaSizes>>
readerVars == <<reader>>
inputVars == <<inputLog>>
packetVars == <<packet>>
vars == <<queueVars, serverVars, secondVars, concVars, codecVars, gameplayVars, mainVars,
          readerVars, inputVars, packetVars>>

\* what the actions of each specification leave alone
outsidePacket == <<queueVars, serverVars, secondVars, concVars, codecVars, gameplayVars,
                   mainVars, readerVars, inputVars>>
outsideQueue == <<serverVars, secondVars, concVars, codecVars, gameplayVars, mainVars, readerVars, inputVars, packetVars>>
outsideServer == <<queueVars, secondVars, concVars, codecVars, gameplayVars, mainVars, readerVars, inputVars, packetVars>>
outsideDet == <<queueVars, concVars, codecVars, gameplayVars, tickLog, spawnLog, seenIn, fric, mainVars, readerVars, inputVars, packetVars>>
outsideConc == <<lastOp, serverVars, secondVars, codecVars, gameplayVars, mainVars, readerVars, inputVars, packetVars>>
outsideCodec == <<queueVars, serverVars, secondVars, concVars, gameplayVars, mainVars, readerVars, inputVars, packetVars>>
outsideGameplay == <<queueVars, secondVars, concVars, codecVars, mainVars, tickLog, spawnLog, seenIn, fric, readerVars, inputVars, packetVars>>
outsideReader == <<queueVars, serverVars, secondVars, concVars, codecVars, gameplayVars,
                   mainVars, inputVars, packetVars>>
outsideInputs == <<queueVars, secondVars, concVars, codecVars, gameplayVars, mainVars,
                   readerVars, spawnLog, seenIn, fric, packetVars>>
outsideMain == <<queueVars, serverVars, secondVars, concVars, codecVars, gameplayVars, readerVars, inputVars, packetVars>>

---------------------------------------------------------------------------
(* Config (deterministic_sim.cpp:25-28)                                    *)

SERVER_TICK_RATE == 30
POS_SCALE == 1000
MAX_CLIENT_INPUT_QUEUE == 256

(* Bounds of the model.                                                    *)
MaxOps == 4          \* InputQueue calls explored after the initial queue
Headroom == 2        \* free slots left in the nearly full initial queue
MaxTicks == 3        \* tick() calls explored
MaxCalls == 2        \* receiveInput and gameplay API calls explored
MaxPushes == 1       \* push calls the I/O thread makes while a drain runs
MaxReads == 3        \* BufferReader reads explored on one buffer
MaxAdds == 4         \* addInput calls explored after the initial packet

---------------------------------------------------------------------------
(* ClientInput (deterministic_sim.cpp:78-93).  The constructor zeroes      *)
(* every field; callers then set the ones they use.                        *)

ClientInput(client, seq, tick, dx, dy) ==
    [client_id |-> client, input_seq |-> seq, target_tick |-> tick,
     move_dx |-> dx, move_dy |-> dy,
     action_flags |-> 0, ability_id |-> 0, target_x |-> 0, target_y |-> 0]

(* Directions explored: int8_t values, including both extremes.            *)
MoveChoices == { <<0, 0>>, <<127, 0>>, <<-128, 20>> }
Clients == {1, 2}
\* target_tick of the inputs explored
TargetTicks == {0, 1, 2}

---------------------------------------------------------------------------
(* InputQueue (deterministic_sim.cpp:96-123)                               *)

\* mutant of push: the capacity test is off by one
push_accepts_one_more(q, in) ==
    IF Len(q) > MAX_CLIENT_INPUT_QUEUE
    THEN [ok |-> FALSE, queue |-> q]
    ELSE [ok |-> TRUE, queue |-> Append(q, in)]

\* bool InputQueue::push(ClientInput const& in)
push(q, in) ==
    IF Len(q) >= MAX_CLIENT_INPUT_QUEUE
    THEN [ok |-> FALSE, queue |-> q]
    ELSE [ok |-> TRUE, queue |-> Append(q, in)]

\* mutant of popStep: an entry of another tick is put back at the front
popStep_reorders(acc, c, tick) ==
    IF c.target_tick = tick
    THEN [acc EXCEPT !.res = Append(@, c)]
    ELSE [acc EXCEPT !.remaining = <<c>> \o @]

\* mutant of popStep: every entry that is due (its tick or an earlier one) is taken
popStep_takes_due(acc, c, tick) ==
    IF c.target_tick <= tick
    THEN [acc EXCEPT !.res = Append(@, c)]
    ELSE [acc EXCEPT !.remaining = Append(@, c)]

\* body of the while loop of popForTick: c = queue.front(); queue.pop_front();
\* then c goes to the back of res (its tick) or of remaining (another tick)
popStep(acc, c, tick) ==
    IF c.target_tick = tick
    THEN [acc EXCEPT !.res = Append(@, c)]
    ELSE [acc EXCEPT !.remaining = Append(@, c)]

\* The while loop run over the entries q[lo..hi], front to back, from the
\* locals acc = [res, remaining].  The entries are taken strictly in queue
\* order (all of q[lo..mid] before q[mid+1..hi]); halving the range, and
\* testing the locals after the first half so that they are computed before
\* the second half starts, only keeps the evaluation depth logarithmic in
\* the queue length.
RECURSIVE popLoop(_, _, _, _, _)
popLoop(q, lo, hi, tick, acc) ==
    IF lo > hi THEN acc
    ELSE IF lo = hi THEN popStep(acc, q[lo], tick)
    ELSE LET mid  == (lo + hi) \div 2
             half == popLoop(q, lo, mid, tick, acc)
         IN  IF Len(half.res) + Len(half.remaining) >= 0
             THEN popLoop(q, mid + 1, hi, tick, half)
             ELSE half

\* std::vector<ClientInput> InputQueue::popForTick(uint32_t tick)
popForTick(q, tick) ==
    LET done == popLoop(q, 1, Len(q), tick, [res |-> <<>>, remaining |-> <<>>])
    IN  [res |-> done.res, queue |-> done.remaining]   \* queue.swap(remaining); return res

---------------------------------------------------------------------------
(* Fixed-point arithmetic and entity state (deterministic_sim.cpp:31-75)   *)

Abs(x) == IF x < 0 THEN -x ELSE x

\* C++ integer division: truncates toward zero (TLA+ \div rounds down)
CDiv(a, b) ==
    IF (a >= 0) = (b > 0) THEN Abs(a) \div Abs(b) ELSE -(Abs(a) \div Abs(b))

\* int32_t to_fixed(float world_units), for the arguments the model passes:
\* whole and half world units, whose product with POS_SCALE is exact in float.
\* The argument is given in half units.
to_fixed_halves(halves) == (halves * POS_SCALE) \div 2

\* to_fixed(num / den) for whole numbers num and den, the quotient taken in
\* float: static_cast<int32_t> truncates toward zero.  For the quotients the
\* model passes (whole numbers, 10/30 and -5/30) the float product with
\* POS_SCALE is either exact or lies strictly between the same two integers as
\* the exact product.
to_fixed_ratio(num, den) == CDiv(num * POS_SCALE, den)

\* the empty std::unordered_map
EmptyMap == [k \in {} |-> 0]

\* m[k] = v on a std::unordered_map: inserts the key or overwrites its value
MapPut(m, k, v) == [x \in DOMAIN m \cup {k} |-> IF x = k THEN v ELSE m[x]]

\* EntityState with its default member initialisers
DefaultEntity ==
    [id |-> 0, type |-> "Character", pos_x |-> 0, pos_y |-> 0,
     vel_x |-> 0, vel_y |-> 0, health |-> 0, radius |-> 0,
     lifetime_ticks |-> -1, flags |-> 0]

\* EntityState::operator==: radius and lifetime_ticks are not compared
EntityEquals(a, b) ==
    /\ a.id = b.id
    /\ a.pos_x = b.pos_x
    /\ a.pos_y = b.pos_y
    /\ a.vel_x = b.vel_x
    /\ a.vel_y = b.vel_y
    /\ a.health = b.health
    /\ a.flags = b.flags
    /\ a.type = b.type

---------------------------------------------------------------------------
(* Snapshot / delta serialization (deterministic_sim.cpp:125-223)          *)

\* enum ChangeBits
CH_PosX == 1
CH_PosY == 2
CH_VelX == 4
CH_VelY == 8
CH_Health == 16
CH_Flags == 32

\* mask & bit, for a single-bit constant
HasBit(mask, bit) == (mask \div bit) % 2 = 1

\* (v >> 8k) & 0xFF of the 32-bit pattern of v.  For a negative int32_t cast
\* to uint32_t the pattern is v's two's complement, whose bytes are those of
\* the floored quotients.
ByteOf(v, k) ==
    LET shift == IF k = 0 THEN 1 ELSE IF k = 1 THEN 256
                 ELSE IF k = 2 THEN 65536 ELSE 16777216
    IN  (v \div shift) % 256

\* write_u8 / write_u32 / write_i32: the bytes appended to the buffer
write_u8(buf, v) == Append(buf, v % 256)
write_u32(buf, v) == buf \o << ByteOf(v, 0), ByteOf(v, 1), ByteOf(v, 2), ByteOf(v, 3) >>
write_i32(buf, v) == write_u32(buf, v)      \* write_u32(buf, static_cast<uint32_t>(v))

\* mutant of fullRecord: the two velocity components are written in the other order
fullRecord_swaps_velocity(buf, e) ==
    write_u8(write_i32(write_i32(write_i32(write_i32(write_i32(write_u32(buf,
        e.id), e.pos_x), e.pos_y), e.vel_y), e.vel_x), e.health), e.flags)

\* serializeFull, the body of the loop: the seven writes for one entity
fullRecord(buf, e) ==
    write_u8(write_i32(write_i32(write_i32(write_i32(write_i32(write_u32(buf,
        e.id), e.pos_x), e.pos_y), e.vel_x), e.vel_y), e.health), e.flags)

\* serializeFull, the for loop over snap.entities from entity i on
RECURSIVE fullLoop(_, _, _)
fullLoop(entities, i, out) ==
    IF i > Len(entities) THEN out
    ELSE fullLoop(entities, i + 1, fullRecord(out, entities[i]))

\* mutant of serializeFull: the entity count is written as 0
serializeFull_counts_zero(shot) ==
    fullLoop(shot.entities, 1, write_u32(write_u32(<<>>, shot.server_tick), 0))

\* std::vector<uint8_t> serializeFull(Snapshot const& snap)
serializeFull(shot) ==
    fullLoop(shot.entities, 1,
             write_u32(write_u32(<<>>, shot.server_tick), Len(shot.entities)))

\* mutant of changeMask: a change of flags alone is not noticed
changeMask_misses_flags(e, prev) ==
      (IF e.pos_x # prev.pos_x THEN CH_PosX ELSE 0)
    + (IF e.pos_y # prev.pos_y THEN CH_PosY ELSE 0)
    + (IF e.vel_x # prev.vel_x THEN CH_VelX ELSE 0)
    + (IF e.vel_y # prev.vel_y THEN CH_VelY ELSE 0)
    + (IF e.health # prev.health THEN CH_Health ELSE 0)

\* mutant of changeMask: a change of vel_x sets the VelY bit and a change of
\* vel_y the VelX bit
changeMask_swaps_velocity_bits(e, prev) ==
      (IF e.pos_x # prev.pos_x THEN CH_PosX ELSE 0)
    + (IF e.pos_y # prev.pos_y THEN CH_PosY ELSE 0)
    + (IF e.vel_x # prev.vel_x THEN CH_VelY ELSE 0)
    + (IF e.vel_y # prev.vel_y THEN CH_VelX ELSE 0)
    + (IF e.health # prev.health THEN CH_Health ELSE 0)
    + (IF e.flags # prev.flags THEN CH_Flags ELSE 0)

\* serializeDelta, entity found in prev_map: mask |= bit for each field that differs
changeMask(e, prev) ==
      (IF e.pos_x # prev.pos_x THEN CH_PosX ELSE 0)
    + (IF e.pos_y # prev.pos_y THEN CH_PosY ELSE 0)
    + (IF e.vel_x # prev.vel_x THEN CH_VelX ELSE 0)
    + (IF e.vel_y # prev.vel_y THEN CH_VelY ELSE 0)
    + (IF e.health # prev.health THEN CH_Health ELSE 0)
    + (IF e.flags # prev.flags THEN CH_Flags ELSE 0)

\* mutant of writeRecord: pos_y is written before pos_x
writeRecord_swaps_position(buf, e, mask) ==
    LET b0 == write_u8(write_u32(buf, e.id), mask)
        b1 == IF HasBit(mask, CH_PosY) THEN write_i32(b0, e.pos_y) ELSE b0
        b2 == IF HasBit(mask, CH_PosX) THEN write_i32(b1, e.pos_x) ELSE b1
        b3 == IF HasBit(mask, CH_VelX) THEN write_i32(b2, e.vel_x) ELSE b2
        b4 == IF HasBit(mask, CH_VelY) THEN write_i32(b3, e.vel_y) ELSE b3
        b5 == IF HasBit(mask, CH_Health) THEN write_i32(b4, e.health) ELSE b4
    IN  IF HasBit(mask, CH_Flags) THEN write_u8(b5, e.flags) ELSE b5

\* serializeDelta, the record of one entity: id, mask, then the flagged fields
writeRecord(buf, e, mask) ==
    LET b0 == write_u8(write_u32(buf, e.id), mask)
        b1 == IF HasBit(mask, CH_PosX) THEN write_i32(b0, e.pos_x) ELSE b0
        b2 == IF HasBit(mask, CH_PosY) THEN write_i32(b1, e.pos_y) ELSE b1
        b3 == IF HasBit(mask, CH_VelX) THEN write_i32(b2, e.vel_x) ELSE b2
        b4 == IF HasBit(mask, CH_VelY) THEN write_i32(b3, e.vel_y) ELSE b3
        b5 == IF HasBit(mask, CH_Health) THEN write_i32(b4, e.health) ELSE b4
    IN  IF HasBit(mask, CH_Flags) THEN write_u8(b5, e.flags) ELSE b5

\* mutant of deltaLoop: an entity found unchanged is written with an empty mask
RECURSIVE deltaLoop_writes_unchanged(_, _, _, _)
deltaLoop_writes_unchanged(entities, i, prev_map, st) ==
    IF i > Len(entities) THEN st
    ELSE LET e == entities[i]
             mask == IF e.id \notin DOMAIN prev_map
                     THEN CH_PosX + CH_PosY + CH_VelX + CH_VelY + CH_Health + CH_Flags
                     ELSE changeMask(e, prev_map[e.id])
         IN  deltaLoop_writes_unchanged(entities, i + 1, prev_map,
                            [out |-> writeRecord(st.out, e, mask),
                             entity_count |-> st.entity_count + 1])

\* mutant of deltaLoop: after the loop, an id of prev_map that the snapshot
\* no longer lists is written as a record with an empty mask
RECURSIVE deltaLoop_writes_tombstones(_, _, _, _)
deltaLoop_writes_tombstones(entities, i, prev_map, st) ==
    IF i > Len(entities)
    THEN LET gone == DOMAIN prev_map \ { entities[k].id : k \in DOMAIN entities }
         IN  IF gone = {} THEN st
             ELSE LET id == CHOOSE x \in gone : TRUE
                  IN  [out |-> write_u8(write_u32(st.out, id), 0),
                       entity_count |-> st.entity_count + 1]
    ELSE LET e == entities[i]
             isNew == e.id \notin DOMAIN prev_map
             mask == IF isNew
                     THEN CH_PosX + CH_PosY + CH_VelX + CH_VelY + CH_Health + CH_Flags
                     ELSE changeMask(e, prev_map[e.id])
         IN  IF ~isNew /\ mask = 0
             THEN deltaLoop_writes_tombstones(entities, i + 1, prev_map, st)
             ELSE deltaLoop_writes_tombstones(entities, i + 1, prev_map,
                            [out |-> writeRecord(st.out, e, mask),
                             entity_count |-> st.entity_count + 1])

\* serializeDelta, the for loop over snap.entities from entity i on;
\* st = [out, entity_count]
RECURSIVE deltaLoop(_, _, _, _)
deltaLoop(entities, i, prev_map, st) ==
    IF i > Len(entities) THEN st
    ELSE LET e == entities[i]
             isNew == e.id \notin DOMAIN prev_map
             mask == IF isNew
                     THEN CH_PosX + CH_PosY + CH_VelX + CH_VelY + CH_Health + CH_Flags
                     ELSE changeMask(e, prev_map[e.id])
         IN  IF ~isNew /\ mask = 0
             THEN deltaLoop(entities, i + 1, prev_map, st)             \* continue
             ELSE deltaLoop(entities, i + 1, prev_map,
                            [out |-> writeRecord(st.out, e, mask),
                             entity_count |-> st.entity_count + 1])

\* mutant of serializeDelta: entity_count is patched with snap.entities.size()
serializeDelta_counts_all(shot, prev_map) ==
    LET header == write_u32(write_u32(<<>>, shot.server_tick), 0)
        count_pos == 4
        done == deltaLoop(shot.entities, 1, prev_map, [out |-> header, entity_count |-> 0])
    IN  [i \in 1..Len(done.out) |->
            IF i > count_pos /\ i <= count_pos + 4
            THEN ByteOf(Len(shot.entities), i - count_pos - 1)
            ELSE done.out[i]]

\* std::vector<uint8_t> serializeDelta(Snapshot const& snap, prev_map)
serializeDelta(shot, prev_map) ==
    LET header == write_u32(write_u32(<<>>, shot.server_tick), 0)
        count_pos == 4
        done == deltaLoop(shot.entities, 1, prev_map, [out |-> header, entity_count |-> 0])
    IN  [i \in 1..Len(done.out) |->
            IF i > count_pos /\ i <= count_pos + 4
            THEN ByteOf(done.entity_count, i - count_pos - 1)       \* patch entity_count
            ELSE done.out[i]]

\* DemoServer::updatePrevBeforeFromSnapshot: the map id -> state of a snapshot
RECURSIVE snapshotMap(_, _, _)
snapshotMap(entities, i, m) ==
    IF i > Len(entities) THEN m
    ELSE snapshotMap(entities, i + 1, MapPut(m, entities[i].id, entities[i]))

(* The receiver.  The repository holds no decoder of this format; it is    *)
(* modelled from the design: read the header, then for each record the id  *)
(* and the mask, then only the fields flagged, applied onto a copy of the  *)
(* last known full state of that id; a record of an unknown id must carry  *)
(* every field; a read past the end of the buffer fails.                   *)

read_u8(buf, off) == buf[off + 1]
read_u32(buf, off) ==
    buf[off + 1] + 256 * buf[off + 2] + 65536 * buf[off + 3] + 16777216 * buf[off + 4]
read_i32(buf, off) ==
    buf[off + 1] + 256 * buf[off + 2] + 65536 * buf[off + 3]
    + 16777216 * (IF buf[off + 4] >= 128 THEN buf[off + 4] - 256 ELSE buf[off + 4])

FieldBits == << CH_PosX, CH_PosY, CH_VelX, CH_VelY, CH_Health, CH_Flags >>
FieldSize(k) == IF k = 6 THEN 1 ELSE 4

\* offset of field k (1..6) of a record whose fields start at off
FieldOffset(mask, off, k) ==
    LET Size(j) == IF j < k /\ HasBit(mask, FieldBits[j]) THEN FieldSize(j) ELSE 0
    IN  off + Size(1) + Size(2) + Size(3) + Size(4) + Size(5)

RecordSize(mask) == FieldOffset(mask, 0, 6) + (IF HasBit(mask, CH_Flags) THEN 1 ELSE 0)

\* the records from offset off on, n of them left, applied onto the states known
RECURSIVE applyRecords(_, _, _, _)
applyRecords(buf, off, n, known) ==
    IF n = 0 THEN [ok |-> TRUE, entities |-> known]
    ELSE IF off + 5 > Len(buf) THEN [ok |-> FALSE, entities |-> known]
    ELSE LET id == read_u32(buf, off)
             mask == read_u8(buf, off + 4)
             body == off + 5
             base == IF id \in DOMAIN known THEN known[id]
                     ELSE [DefaultEntity EXCEPT !.id = id]
             Get(k, old) == IF ~HasBit(mask, FieldBits[k]) THEN old
                            ELSE IF k = 6 THEN read_u8(buf, FieldOffset(mask, body, k))
                            ELSE read_i32(buf, FieldOffset(mask, body, k))
         IN  IF body + RecordSize(mask) > Len(buf) THEN [ok |-> FALSE, entities |-> known]
             ELSE IF id \notin DOMAIN known /\ mask # 63 THEN [ok |-> FALSE, entities |-> known]
             ELSE applyRecords(buf, body + RecordSize(mask), n - 1,
                    MapPut(known, id,
                           [base EXCEPT !.pos_x = Get(1, @), !.pos_y = Get(2, @),
                                        !.vel_x = Get(3, @), !.vel_y = Get(4, @),
                                        !.health = Get(5, @), !.flags = Get(6, @)]))

\* apply_delta(decode(buf), known): the receiver's snapshot after the delta
applyDelta(buf, known) ==
    IF Len(buf) < 8 THEN [ok |-> FALSE, tick |-> -1, entities |-> known]
    ELSE LET r == applyRecords(buf, 8, read_u32(buf, 4), known)
         IN  [ok |-> r.ok, tick |-> read_u32(buf, 0), entities |-> r.entities]

\* decode of the full layout: header, then entity_count records of 25 bytes;
\* the layout carries neither type, radius nor lifetime_ticks, which keep the
\* values of a default-constructed EntityState
decodeFull(buf) ==
    IF Len(buf) < 8 THEN [ok |-> FALSE, tick |-> -1, entities |-> <<>>]
    ELSE LET n == read_u32(buf, 4)
             At(i) == 8 + 25 * (i - 1)
         IN  IF Len(buf) # 8 + 25 * n
             THEN [ok |-> FALSE, tick |-> read_u32(buf, 0), entities |-> <<>>]
             ELSE [ok |-> TRUE, tick |-> read_u32(buf, 0),
                   entities |->
                     [i \in 1..n |->
                        [DefaultEntity EXCEPT
                            !.id = read_u32(buf, At(i)),
                            !.pos_x = read_i32(buf, At(i) + 4),
                            !.pos_y = read_i32(buf, At(i) + 8),
                            !.vel_x = read_i32(buf, At(i) + 12),
                            !.vel_y = read_i32(buf, At(i) + 16),
                            !.health = read_i32(buf, At(i) + 20),
                            !.flags = read_u8(buf, At(i) + 24)]]]

---------------------------------------------------------------------------
(* Physics (deterministic_sim.cpp:225-268)                                 *)

\* static_cast<int32_t>((5.0f * POS_SCALE) / SERVER_TICK_RATE): 166.67 truncated
MAX_SPEED_FIXED_PER_TICK == (5 * POS_SCALE) \div SERVER_TICK_RATE
FRICTION_PER_TICK == 25

\* mutant of applyInput: a zero direction stops the entity
applyInput_zero_stops(e, in) ==
    [e EXCEPT !.vel_x = CDiv(MAX_SPEED_FIXED_PER_TICK * in.move_dx, 127),
              !.vel_y = CDiv(MAX_SPEED_FIXED_PER_TICK * in.move_dy, 127)]

\* body of the for loop of applyInputsToEntity
applyInput(e, in) ==
    IF in.move_dx # 0 \/ in.move_dy # 0
    THEN [e EXCEPT !.vel_x = CDiv(MAX_SPEED_FIXED_PER_TICK * in.move_dx, 127),
                   !.vel_y = CDiv(MAX_SPEED_FIXED_PER_TICK * in.move_dy, 127)]
    ELSE e

\* void applyInputsToEntity(EntityState &e, std::vector<ClientInput> const& inputs)
RECURSIVE applyInputsToEntity(_, _)
applyInputsToEntity(e, inputs) ==
    IF inputs = <<>> THEN e
    ELSE applyInputsToEntity(applyInput(e, Head(inputs)), Tail(inputs))

\* mutant of approach_zero: friction is subtracted without the snap to zero
approach_zero_overshoots(current_val, amount) ==
    IF current_val > 0 THEN current_val - amount
    ELSE IF current_val < 0 THEN current_val + amount
    ELSE 0

\* int32_t approach_zero(int32_t current_val, int32_t amount)
approach_zero(current_val, amount) ==
    IF current_val > amount THEN current_val - amount
    ELSE IF current_val < -amount THEN current_val + amount
    ELSE 0

\* void simulateEntityTick(EntityState &e)
\* mutant of simulateEntityTick: friction is applied to every entity
simulateEntityTick_slows_projectiles(e) ==
    [e EXCEPT !.pos_x = @ + e.vel_x,
              !.pos_y = @ + e.vel_y,
              !.vel_x = approach_zero(@, FRICTION_PER_TICK),
              !.vel_y = approach_zero(@, FRICTION_PER_TICK),
              !.lifetime_ticks = IF @ > 0 THEN @ - 1 ELSE @]

\* mutant of simulateEntityTick: a Character is not slowed by friction
simulateEntityTick_no_friction(e) ==
    [e EXCEPT !.pos_x = @ + e.vel_x,
              !.pos_y = @ + e.vel_y,
              !.lifetime_ticks = IF @ > 0 THEN @ - 1 ELSE @]

simulateEntityTick(e) ==
    LET moved == [e EXCEPT !.pos_x = e.pos_x + e.vel_x,
                           !.pos_y = e.pos_y + e.vel_y]
        slowed == IF e.type = "Character"
                  THEN [moved EXCEPT
                          !.vel_x = approach_zero(e.vel_x, FRICTION_PER_TICK),
                          !.vel_y = approach_zero(e.vel_y, FRICTION_PER_TICK)]
                  ELSE moved
    IN  IF e.lifetime_ticks > 0
        THEN [slowed EXCEPT !.lifetime_ticks = e.lifetime_ticks - 1]
        ELSE slowed

---------------------------------------------------------------------------
(* DemoServer (deterministic_sim.cpp:271-456)                              *)

FIRST_ENTITY_ID == 1001
CONTROLLED_ENTITY == 1001     \* tick(): "Hardcoded client 1 controls entity 1001"

\* The orders in which a range-for may visit the keys S of a std::unordered_map:
\* the order is unspecified, so every permutation is one.
IterationOrders(S) ==
    { o \in [1..Cardinality(S) -> S] : \A i, j \in DOMAIN o : i # j => o[i] # o[j] }

\* DemoServer::DemoServer()
NewServer ==
    LET e == [DefaultEntity EXCEPT !.id = FIRST_ENTITY_ID, !.type = "Character",
                                   !.pos_x = to_fixed_halves(0), !.pos_y = to_fixed_halves(0),
                                   !.vel_x = 0, !.vel_y = 0, !.health = 100,
                                   !.flags = 0, !.radius = to_fixed_halves(1)]
    IN  [server_tick |-> 0,
         next_entity_id |-> FIRST_ENTITY_ID + 1,
         entities |-> MapPut(EmptyMap, e.id, e),
         input_queues |-> EmptyMap,
         prev_snapshot_map |-> EmptyMap,
         prev_snapshot_map_before_tick |-> EmptyMap]

\* bool DemoServer::receiveInput(ClientInput const& in)
receiveInput(s, in) ==
    LET q == IF in.client_id \in DOMAIN s.input_queues
             THEN s.input_queues[in.client_id] ELSE <<>>
        r == push(q, in)
    IN  [ok |-> r.ok,
         srv |-> [s EXCEPT !.input_queues = MapPut(@, in.client_id, r.queue)]]

\* mutant of SpawnProjectile: the id is the lowest one no live entity holds
SpawnProjectile_reuses_ids(s, x, y, dx, dy, speed, radius, life) ==
    LET free == CHOOSE id \in FIRST_ENTITY_ID..s.next_entity_id :
                    /\ id \notin DOMAIN s.entities
                    /\ \A j \in FIRST_ENTITY_ID..(id - 1) : j \in DOMAIN s.entities
        proj == [DefaultEntity EXCEPT
                    !.id = free,
                    !.type = "Projectile",
                    !.pos_x = to_fixed_halves(x), !.pos_y = to_fixed_halves(y),
                    !.vel_x = to_fixed_ratio(dx * speed, SERVER_TICK_RATE),
                    !.vel_y = to_fixed_ratio(dy * speed, SERVER_TICK_RATE),
                    !.radius = to_fixed_halves(radius),
                    !.lifetime_ticks = IF life >= 0 THEN life ELSE -1]
    IN  [id |-> proj.id,
         srv |-> [s EXCEPT !.next_entity_id = @ + 1,
                           !.entities = MapPut(@, proj.id, proj)]]

\* int DemoServer::SpawnProjectile(caster_id, x, y, dx, dy, speed, radius, life_time)
\* x, y and radius are given in half world units, speed in whole world units
\* per second, dx and dy as whole numbers.
\* life is static_cast<int32_t>(life_time * ticks_per_sec) when life_time > 0,
\* and -1 stands for life_time <= 0.
SpawnProjectile(s, x, y, dx, dy, speed, radius, life) ==
    LET proj == [DefaultEntity EXCEPT
                    !.id = s.next_entity_id,
                    !.type = "Projectile",
                    !.pos_x = to_fixed_halves(x), !.pos_y = to_fixed_halves(y),
                    !.vel_x = to_fixed_ratio(dx * speed, SERVER_TICK_RATE),
                    !.vel_y = to_fixed_ratio(dy * speed, SERVER_TICK_RATE),
                    !.radius = to_fixed_halves(radius),
                    !.lifetime_ticks = IF life >= 0 THEN life ELSE -1]
    IN  [id |-> proj.id,
         srv |-> [s EXCEPT !.next_entity_id = @ + 1,      \* next_entity_id++
                           !.entities = MapPut(@, proj.id, proj)]]

\* bool DemoServer::GetPosition(int id, float &x, float &y); x and y are the
\* caller's variables, left alone when the id is unknown.  to_world divides
\* by POS_SCALE: a position is given here in thousandths of a world unit.
GetPosition(s, id, x, y) ==
    IF id \notin DOMAIN s.entities THEN [ok |-> FALSE, x |-> x, y |-> y]
    ELSE [ok |-> TRUE, x |-> s.entities[id].pos_x, y |-> s.entities[id].pos_y]

\* mutant of SetMovement: entities[id] is used, which inserts an unknown id
SetMovement_inserts(s, id, vx, vy) ==
    LET e == IF id \in DOMAIN s.entities THEN s.entities[id] ELSE DefaultEntity
    IN  [ok |-> TRUE,
         srv |-> [s EXCEPT !.entities =
                     MapPut(@, id, [e EXCEPT
                                      !.vel_x = to_fixed_ratio(vx, SERVER_TICK_RATE),
                                      !.vel_y = to_fixed_ratio(vy, SERVER_TICK_RATE)])]]

\* bool DemoServer::SetMovement(int id, float vx, float vy), vx and vy in whole
\* world units per second
SetMovement(s, id, vx, vy) ==
    IF id \notin DOMAIN s.entities THEN [ok |-> FALSE, srv |-> s]
    ELSE [ok |-> TRUE,
          srv |-> [s EXCEPT !.entities[id].vel_x = to_fixed_ratio(vx, SERVER_TICK_RATE),
                            !.entities[id].vel_y = to_fixed_ratio(vy, SERVER_TICK_RATE)]]

\* mutant of ApplyDamage: the health is not clamped at 0
ApplyDamage_no_clamp(s, source_id, target_id, amount) ==
    IF target_id \notin DOMAIN s.entities THEN [ok |-> FALSE, srv |-> s]
    ELSE [ok |-> TRUE,
          srv |-> [s EXCEPT !.entities[target_id].health = @ - amount]]

\* bool DemoServer::ApplyDamage(source_id, target_id, amount, damage_type), for
\* amounts that keep health - amount within int32_t; source_id and damage_type
\* are only printed
ApplyDamage(s, source_id, target_id, amount) ==
    IF target_id \notin DOMAIN s.entities THEN [ok |-> FALSE, srv |-> s]
    ELSE LET health == s.entities[target_id].health - amount
         IN  [ok |-> TRUE,
              srv |-> [s EXCEPT !.entities[target_id].health =
                                    IF health < 0 THEN 0 ELSE health]]

\* bool DemoServer::ApplyKnockback(source_id, target_id, dir_x, dir_y, force,
\* duration), for a direction that is a unit vector along an axis (len is then
\* exactly 1) or the zero vector (len is 0 and nothing is divided), and a
\* force in whole world units per second
ApplyKnockback(s, source_id, target_id, dir_x, dir_y, force) ==
    IF target_id \notin DOMAIN s.entities THEN [ok |-> FALSE, srv |-> s]
    ELSE LET fx == to_fixed_ratio(dir_x * force, SERVER_TICK_RATE)
             fy == to_fixed_ratio(dir_y * force, SERVER_TICK_RATE)
         IN  [ok |-> TRUE,
              srv |-> [s EXCEPT !.entities[target_id].vel_x = @ + fx,
                                !.entities[target_id].vel_y = @ + fy]]

\* LuaBridge::l_ApplyKnockback (lua_bridge.cpp), for the directions above: a
\* zero direction is replaced by (1, 0), the direction is divided by its
\* length, and Engine_ApplyKnockback forwards to DemoServer::ApplyKnockback
l_ApplyKnockback(s, source, target, dx, dy, force) ==
    LET zero == dx = 0 /\ dy = 0           \* len == 0.0
        ux == IF zero THEN 1 ELSE dx
        uy == IF zero THEN 0 ELSE dy
    IN  ApplyKnockback(s, source, target, ux, uy, force)

\* LuaBridge::l_SpawnProjectile (lua_bridge.cpp), called with the fields
\* caster, pos, dir, speed, radius and life_time and no target_pos; dir is a
\* unit vector along an axis or the zero vector.  A spawn position of (0, 0)
\* is replaced by the caster's position when the caster exists (positions
\* that are whole or half world units pass through to_world and to_fixed
\* unchanged); a zero direction is replaced by (1, 0).  x and y are in half
\* world units.
l_SpawnProjectile(s, caster, x, y, dir_x, dir_y, speed, radius, life) ==
    LET at == GetPosition(s, caster, 0, 0)
        useCaster == x = 0 /\ y = 0 /\ at.ok
        spawn_x == IF useCaster THEN at.x \div (POS_SCALE \div 2) ELSE x
        spawn_y == IF useCaster THEN at.y \div (POS_SCALE \div 2) ELSE y
        zero == dir_x = 0 /\ dir_y = 0     \* dlen == 0.0
    IN  SpawnProjectile(s, spawn_x, spawn_y,
                        IF zero THEN 1 ELSE dir_x, IF zero THEN 0 ELSE dir_y,
                        speed, radius, life)

\* void DemoServer::updatePrevBeforeFromSnapshot(Snapshot const& s)
updatePrevBeforeFromSnapshot(s, shot) ==
    [s EXCEPT !.prev_snapshot_map_before_tick = snapshotMap(shot.entities, 1, EmptyMap)]

\* tick() step 1, for the queues visited in the order `order`: drain the inputs
\* of the current tick and apply them to the controlled entity.  st holds the
\* entities, the queues and the observation log.
RECURSIVE tickInputs(_, _, _)
tickInputs(st, order, tick) ==
    IF order = <<>> THEN st
    ELSE LET client == Head(order)
             r == popForTick(st.input_queues[client], tick)
             ent_id == CONTROLLED_ENTITY
             found == ent_id \in DOMAIN st.entities /\ r.res # <<>>
             ents == IF found
                     THEN [st.entities EXCEPT
                             ![ent_id] = applyInputsToEntity(@, r.res)]
                     ELSE st.entities
             Vel(m) == IF ent_id \in DOMAIN m
                       THEN <<m[ent_id].vel_x, m[ent_id].vel_y>> ELSE <<0, 0>>
             entry == [client |-> client, inputs |-> r.res, kept |-> r.queue,
                       applied |-> found,
                       before |-> Vel(st.entities), vel |-> Vel(ents)]
         IN  tickInputs([entities |-> ents,
                         input_queues |-> [st.input_queues EXCEPT ![client] = r.queue],
                         log |-> Append(st.log, entry)],
                        Tail(order), tick)

\* mutant of tickSimulate: nothing is erased
tickSimulate_keeps_expired(entities) ==
    [id \in DOMAIN entities |-> simulateEntityTick(entities[id])]

\* tick() step 2: simulate every entity, then erase the projectiles whose
\* lifetime_ticks is 0.  Each entity is updated from its own state only, so
\* the visiting order has no effect on the result.
tickSimulate(entities) ==
    LET sim == [id \in DOMAIN entities |-> simulateEntityTick(entities[id])]
        to_remove == { id \in DOMAIN sim :
                          sim[id].type = "Projectile" /\ sim[id].lifetime_ticks = 0 }
    IN  [id \in DOMAIN sim \ to_remove |-> sim[id]]

\* mutant of tickAdvance: the tick counter is not incremented
tickAdvance_stuck(server_tick) == server_tick

\* mutant of tickAdvance: the tick counter skips a tick
tickAdvance_by_two(server_tick) == server_tick + 2

\* server_tick++ (a uint32_t: it wraps only after 2^32 ticks, far beyond the
\* ticks explored and beyond the integers of the model checker)
tickAdvance(server_tick) == server_tick + 1

\* Snapshot DemoServer::tick(), the queues visited in the order qorder and the
\* entities listed in the snapshot in the order eorder
tick(s, qorder, eorder) ==
    LET st == tickInputs([entities |-> s.entities, input_queues |-> s.input_queues,
                          log |-> <<>>], qorder, s.server_tick)
        ents == tickSimulate(st.entities)
        shot == [server_tick |-> s.server_tick,
                 entities |-> [i \in 1..Len(eorder) |-> ents[eorder[i]]]]
    IN  [snap |-> shot,
         log |-> st.log,
         srv |-> [s EXCEPT !.entities = ents,
                           !.input_queues = st.input_queues,
                           !.prev_snapshot_map = ents,
                           !.server_tick = tickAdvance(@)]]

\* ids that survive the tick that starts in server state s
Survivors(s) == DOMAIN tickSimulate(s.entities)

---------------------------------------------------------------------------
(* SpecQueue: one InputQueue, called sequentially.                         *)

\* A queue left by n accepted pushes of a client that targets ticks round-robin.
Prefill(n) ==
    [i \in 1..n |-> ClientInput(1, i, i % Cardinality(TargetTicks), 127, 0)]

NoOp == [kind |-> "none"]
NoSnap == [server_tick |-> -1, entities |-> <<>>]

\* the variables of the InputQueue under test, when unused
QueueIdle == queue = <<>> /\ lastOp = NoOp /\ nOps = 0

\* the server after construction, nothing observed yet
ServerFresh ==
    /\ srv = NewServer
    /\ snap = NoSnap
    /\ tickLog = <<>>
    /\ nTicks = 0
    /\ nCalls = 0
    /\ spawnLog = EmptyMap
    /\ seenIn = EmptyMap
    /\ fric = [v0 |-> <<0, 0>>, k |-> 0]
    /\ lastCall = NoOp
    /\ allocated = <<FIRST_ENTITY_ID>>

\* the second run, when unused
SecondIdle == srv2 = NewServer /\ snap2 = NoSnap

\* the two threads, when unused
Idle == [pc |-> "idle"]
ConcIdle == prod = Idle /\ cons = Idle /\ accepted = {}

\* main(), not started
MainIdle ==
    /\ demo = [pc |-> "api", server |-> NewServer, seq |-> 1, t |-> 0, i |-> 0,
               last_sent_snap |-> NoSnap, has_last |-> FALSE,
               snap |-> NoSnap, full |-> <<>>, delta |-> <<>>]
    /\ deltaSizes = EmptyMap

\* the ClientInputPacket, not constructed
NoPacket == [pc |-> "none"]
PacketIdle == packet = NoPacket

\* the BufferReader, not constructed
NoReader == [pc |-> "none"]
ReaderIdle == reader = NoReader

\* no receiveInput call observed
InputsIdle == inputLog = <<>>

\* the codec, when unused
NoDecode == [ok |-> FALSE, tick |-> -1, entities |-> EmptyMap]
NoFullDecode == [ok |-> FALSE, tick |-> -1, entities |-> <<>>]
CodecIdle ==
    /\ refSnap = NoSnap
    /\ curSnap = NoSnap
    /\ wire = <<>>
    /\ decoded = NoDecode
    /\ full = <<>>
    /\ decodedFull = NoFullDecode
    /\ codecPc = "start"

InitQueue ==
    /\ \E n \in {0, MAX_CLIENT_INPUT_QUEUE - Headroom} : queue = Prefill(n)
    /\ lastOp = NoOp
    /\ nOps = 0
    /\ ServerFresh
    /\ SecondIdle
    /\ ConcIdle
    /\ CodecIdle
    /\ MainIdle /\ PacketIdle /\ ReaderIdle /\ InputsIdle

Push(t) ==
    /\ nOps < MaxOps
    /\ LET in == ClientInput(1, Len(queue) + nOps + 1, t, 127, 0)
           r  == push(queue, in)
       IN  /\ queue' = r.queue
           /\ lastOp' = [kind |-> "push", in |-> in, ok |-> r.ok, before |-> queue]
    /\ nOps' = nOps + 1
    /\ UNCHANGED outsideQueue

PopForTick(t) ==
    /\ nOps < MaxOps
    /\ LET r == popForTick(queue, t)
       IN  /\ queue' = r.queue
           /\ lastOp' = [kind |-> "pop", tick |-> t, res |-> r.res, before |-> queue]
    /\ nOps' = nOps + 1
    /\ UNCHANGED outsideQueue

NextQueue ==
    \/ \E t \in TargetTicks : Push(t)
    \/ \E t \in TargetTicks : PopForTick(t)

SpecQueue == InitQueue /\ [][NextQueue]_vars

---------------------------------------------------------------------------
(* Spec: one DemoServer driven by receiveInput, SpawnProjectile and tick.  *)

Init == QueueIdle /\ ServerFresh /\ SecondIdle /\ ConcIdle /\ CodecIdle /\ MainIdle /\ PacketIdle /\ ReaderIdle /\ InputsIdle

\* Directions and lifetimes of the projectiles spawned
DirChoices == { <<0, -1>> }
LifeChoices == {-1, 0, 1, 2}

NonZeroMove(in) == in.move_dx # 0 \/ in.move_dy # 0

ReceiveInput(client, t, mv) ==
    /\ nCalls < MaxCalls
    /\ LET in == ClientInput(client, nCalls + 1, t, mv[1], mv[2])
       IN  srv' = receiveInput(srv, in).srv
    /\ nCalls' = nCalls + 1
    /\ UNCHANGED <<outsideServer, snap, tickLog, nTicks, spawnLog, seenIn, fric>>

Spawn(dir, life) ==
    /\ nCalls < MaxCalls
    /\ LET r == SpawnProjectile(srv, 0, 0, dir[1], dir[2], 30, 1, life)
       IN  /\ srv' = r.srv
           /\ spawnLog' = MapPut(spawnLog, r.id, [tick |-> srv.server_tick, life |-> life])
           /\ seenIn' = MapPut(seenIn, r.id, {})
    /\ nCalls' = nCalls + 1
    /\ UNCHANGED <<outsideServer, snap, tickLog, nTicks, fric>>

\* the observations a tick() result r adds
Observe(r) ==
    /\ snap' = r.snap
    /\ tickLog' = r.log
    /\ nTicks' = nTicks + 1
    /\ seenIn' = [id \in DOMAIN seenIn |->
                    IF \E i \in DOMAIN r.snap.entities : r.snap.entities[i].id = id
                    THEN seenIn[id] \cup {r.snap.server_tick}
                    ELSE seenIn[id]]
    /\ fric' = IF \E i \in DOMAIN r.log :
                     /\ r.log[i].applied
                     /\ \E j \in DOMAIN r.log[i].inputs : NonZeroMove(r.log[i].inputs[j])
               THEN [v0 |-> r.log[Len(r.log)].vel, k |-> 1]
               ELSE [fric EXCEPT !.k = @ + 1]

Tick ==
    /\ nTicks < MaxTicks
    /\ \E qorder \in IterationOrders(DOMAIN srv.input_queues),
          eorder \in IterationOrders(Survivors(srv)) :
         LET r == tick(srv, qorder, eorder)
         IN  srv' = r.srv /\ Observe(r)
    /\ UNCHANGED <<outsideServer, nCalls, spawnLog>>

Next ==
    \/ \E client \in Clients, t \in TargetTicks, mv \in MoveChoices :
          ReceiveInput(client, t, mv)
    \/ \E dir \in DirChoices, life \in LifeChoices : Spawn(dir, life)
    \/ Tick

Spec == Init /\ [][Next]_vars

---------------------------------------------------------------------------
(* SpecDet: two runs of the server, both constructed by DemoServer() and   *)
(* given the same receiveInput, SpawnProjectile and tick calls in the same *)
(* order.  Each run visits its unordered_maps in an order of its own.      *)

InitDet == QueueIdle /\ ServerFresh /\ SecondIdle /\ ConcIdle /\ CodecIdle /\ MainIdle /\ PacketIdle /\ ReaderIdle /\ InputsIdle

DetReceiveInput(client, t, mv) ==
    /\ nCalls < MaxCalls
    /\ LET in == ClientInput(client, nCalls + 1, t, mv[1], mv[2])
       IN  /\ srv' = receiveInput(srv, in).srv
           /\ srv2' = receiveInput(srv2, in).srv
    /\ nCalls' = nCalls + 1
    /\ UNCHANGED <<outsideDet, snap, snap2, nTicks>>

DetSpawn(dir, life) ==
    /\ nCalls < MaxCalls
    /\ srv' = SpawnProjectile(srv, 0, 0, dir[1], dir[2], 30, 1, life).srv
    /\ srv2' = SpawnProjectile(srv2, 0, 0, dir[1], dir[2], 30, 1, life).srv
    /\ nCalls' = nCalls + 1
    /\ UNCHANGED <<outsideDet, snap, snap2, nTicks>>

DetTick ==
    /\ nTicks < MaxTicks
    /\ \E qorder \in IterationOrders(DOMAIN srv.input_queues),
          eorder \in IterationOrders(Survivors(srv)) :
         LET r == tick(srv, qorder, eorder)
         IN  srv' = r.srv /\ snap' = r.snap
    /\ \E qorder \in IterationOrders(DOMAIN srv2.input_queues),
          eorder \in IterationOrders(Survivors(srv2)) :
         LET r == tick(srv2, qorder, eorder)
         IN  srv2' = r.srv /\ snap2' = r.snap
    /\ nTicks' = nTicks + 1
    /\ UNCHANGED <<outsideDet, nCalls>>

NextDet ==
    \/ \E client \in Clients, t \in TargetTicks, mv \in MoveChoices :
          DetReceiveInput(client, t, mv)
    \/ \E dir \in DirChoices, life \in LifeChoices : DetSpawn(dir, life)
    \/ DetTick

SpecDet == InitDet /\ [][NextDet]_vars

---------------------------------------------------------------------------
(* SpecConc: receiveInput/push called from an I/O thread while the         *)
(* simulation thread runs popForTick on the same InputQueue.  The code     *)
(* takes no lock (InputQueue holds a bare std::deque), so the statements   *)
(* of the two member functions interleave; each step below is one          *)
(* statement of deterministic_sim.cpp:99-117.                              *)

Range(q) == { q[i] : i \in DOMAIN q }

InitConc ==
    /\ \E n \in {0, 3, MAX_CLIENT_INPUT_QUEUE} : queue = Prefill(n)
    /\ accepted = Range(queue)
    /\ prod = Idle
    /\ cons = Idle
    /\ lastOp = NoOp
    /\ nOps = 0
    /\ ServerFresh
    /\ SecondIdle
    /\ CodecIdle
    /\ MainIdle /\ PacketIdle /\ ReaderIdle /\ InputsIdle

\* the I/O thread enters push(in)
PushCall(t) ==
    /\ prod.pc = "idle"
    /\ nOps < MaxPushes
    /\ prod' = [pc |-> "size", in |-> ClientInput(1, Cardinality(accepted) + nOps + 1, t, 127, 0)]
    /\ nOps' = nOps + 1
    /\ UNCHANGED <<outsideConc, queue, cons, accepted>>

\* if (queue.size() >= MAX_CLIENT_INPUT_QUEUE) return false;
PushSize ==
    /\ prod.pc = "size"
    /\ prod' = IF Len(queue) >= MAX_CLIENT_INPUT_QUEUE
               THEN Idle
               ELSE [prod EXCEPT !.pc = "push_back"]
    /\ UNCHANGED <<outsideConc, queue, nOps, cons, accepted>>

\* queue.push_back(in); return true;
PushBack ==
    /\ prod.pc = "push_back"
    /\ queue' = Append(queue, prod.in)
    /\ accepted' = accepted \cup {prod.in}
    /\ prod' = Idle
    /\ UNCHANGED <<outsideConc, nOps, cons>>

\* the simulation thread enters popForTick(t): res and remaining start empty
PopCall(t) ==
    /\ cons.pc = "idle"
    /\ cons' = [pc |-> "while", tick |-> t, c |-> ClientInput(0, 0, 0, 0, 0),
                res |-> <<>>, remaining |-> <<>>]
    /\ UNCHANGED <<outsideConc, queue, nOps, prod, accepted>>

\* while (!queue.empty())
PopWhile ==
    /\ cons.pc = "while"
    /\ cons' = [cons EXCEPT !.pc = IF queue # <<>> THEN "front" ELSE "swap"]
    /\ UNCHANGED <<outsideConc, queue, nOps, prod, accepted>>

\* ClientInput c = queue.front();
PopFront ==
    /\ cons.pc = "front"
    /\ cons' = [cons EXCEPT !.pc = "pop_front", !.c = Head(queue)]
    /\ UNCHANGED <<outsideConc, queue, nOps, prod, accepted>>

\* queue.pop_front();
PopPopFront ==
    /\ cons.pc = "pop_front"
    /\ queue' = Tail(queue)
    /\ cons' = [cons EXCEPT !.pc = "sort"]
    /\ UNCHANGED <<outsideConc, nOps, prod, accepted>>

\* if (c.target_tick == tick) res.push_back(c); else remaining.push_back(c);
PopSort ==
    /\ cons.pc = "sort"
    /\ LET acc == popStep([res |-> cons.res, remaining |-> cons.remaining],
                          cons.c, cons.tick)
       IN  cons' = [cons EXCEPT !.pc = "while", !.res = acc.res,
                                !.remaining = acc.remaining]
    /\ UNCHANGED <<outsideConc, queue, nOps, prod, accepted>>

\* queue.swap(remaining); return res;  (remaining is destroyed on return)
PopSwap ==
    /\ cons.pc = "swap"
    /\ queue' = cons.remaining
    /\ cons' = [cons EXCEPT !.pc = "returned", !.remaining = queue]
    /\ UNCHANGED <<outsideConc, nOps, prod, accepted>>

NextConc ==
    \/ \E t \in TargetTicks : PushCall(t)
    \/ PushSize
    \/ PushBack
    \/ \E t \in TargetTicks : PopCall(t)
    \/ PopWhile
    \/ PopFront
    \/ PopPopFront
    \/ PopSort
    \/ PopSwap

SpecConc == InitConc /\ [][NextConc]_vars

---------------------------------------------------------------------------
(* SpecDelta: serializeDelta applied to a current snapshot against the map *)
(* of a reference snapshot, and the receiver applying the bytes onto its   *)
(* copy of the reference.                                                  *)

\* Field values explored: small ones, both int32_t extremes, values whose
\* bytes differ in every position, and a flags byte with every bit set.
FieldNames == << "pos_x", "pos_y", "vel_x", "vel_y", "health", "flags" >>
BaseValues == [pos_x |-> 0, pos_y |-> -1, vel_x |-> 166, vel_y |-> -167,
               health |-> 100, flags |-> 0]
OtherValues == [pos_x |-> 2147483647, pos_y |-> -2147483647 - 1, vel_x |-> -1000,
                vel_y |-> 66051, health |-> 0, flags |-> 255]

\* the entity id whose fields listed in `changed` (indices of FieldNames) take
\* the other value
Variant(id, changed) ==
    LET V(k) == IF k \in changed THEN OtherValues[FieldNames[k]]
                ELSE BaseValues[FieldNames[k]]
    IN  [DefaultEntity EXCEPT
            !.id = id,
            !.type = IF id = FIRST_ENTITY_ID THEN "Character" ELSE "Projectile",
            !.pos_x = V(1), !.pos_y = V(2), !.vel_x = V(3), !.vel_y = V(4),
            !.health = V(5), !.flags = V(6),
            !.lifetime_ticks = IF id = FIRST_ENTITY_ID THEN -1 ELSE 30]

CodecIds == {FIRST_ENTITY_ID, FIRST_ENTITY_ID + 1}
RefVariants(id) == IF id = FIRST_ENTITY_ID THEN { {}, {1, 4, 6}, 1..6 } ELSE { {} }
CurVariants(id) == IF id = FIRST_ENTITY_ID THEN SUBSET (1..6) ELSE { {}, {1, 2} }

\* the snapshots listing the entities `ids` in some order, each in one of its variants
Snapshots(t, ids, variants) ==
    { [server_tick |-> t, entities |-> [i \in DOMAIN o |-> Variant(o[i], ch[o[i]])]] :
        o \in IterationOrders(ids),
        ch \in { f \in [ids -> SUBSET (1..6)] : \A id \in ids : f[id] \in variants[id] } }

InitDelta ==
    /\ \E rids \in SUBSET CodecIds : refSnap \in Snapshots(0, rids, [id \in rids |-> RefVariants(id)])
    /\ \E cids \in SUBSET CodecIds, t \in {1, 258} : curSnap \in Snapshots(t, cids, [id \in cids |-> CurVariants(id)])
    /\ wire = <<>>
    /\ decoded = NoDecode
    /\ full = <<>>
    /\ decodedFull = NoFullDecode
    /\ codecPc = "start"
    /\ QueueIdle
    /\ ServerFresh
    /\ SecondIdle
    /\ ConcIdle
    /\ MainIdle /\ PacketIdle /\ ReaderIdle /\ InputsIdle

Ids(shot) == { shot.entities[i].id : i \in DOMAIN shot.entities }

\* the sender: serializeFull(snap) and serializeDelta(snap, server.getPrevBefore())
Encode ==
    /\ codecPc = "start"
    /\ full' = serializeFull(curSnap)
    /\ wire' = serializeDelta(curSnap, snapshotMap(refSnap.entities, 1, EmptyMap))
    /\ codecPc' = "encoded"
    /\ UNCHANGED <<outsideCodec, refSnap, curSnap, decoded, decodedFull>>

\* the receiver, which holds the reference snapshot
Apply ==
    /\ codecPc = "encoded"
    /\ decoded' = applyDelta(wire, snapshotMap(refSnap.entities, 1, EmptyMap))
    /\ decodedFull' = decodeFull(full)
    /\ codecPc' = "applied"
    /\ UNCHANGED <<outsideCodec, refSnap, curSnap, wire, full>>

NextDelta == Encode \/ Apply

SpecDelta == InitDelta /\ [][NextDelta]_vars

---------------------------------------------------------------------------
(* SpecGameplay: one DemoServer whose gameplay API is called between ticks, *)
(* as the scripting bridge does.                                           *)

InitGameplay == QueueIdle /\ ServerFresh /\ SecondIdle /\ ConcIdle /\ CodecIdle /\ MainIdle /\ PacketIdle /\ ReaderIdle /\ InputsIdle

\* ids passed as source and target: the character, the first projectile id,
\* and an id no entity has
IdChoices == {FIRST_ENTITY_ID, FIRST_ENTITY_ID + 1, 7}
\* amounts of damage: a negative one, less than, equal to and more than the
\* initial health
DamageChoices == {-50, 30, 100, 150}

GpApplyDamage(source, target, amount) ==
    /\ nCalls < MaxCalls
    /\ LET r == ApplyDamage(srv, source, target, amount)
       IN  /\ srv' = r.srv
           /\ lastCall' = [kind |-> "ApplyDamage", source |-> source, target |-> target,
                           amount |-> amount, ok |-> r.ok, before |-> srv.entities]
    /\ nCalls' = nCalls + 1
    /\ UNCHANGED <<outsideGameplay, snap, nTicks, allocated>>

GpSpawn ==
    /\ nCalls < MaxCalls
    /\ LET r == SpawnProjectile(srv, 0, 0, 1, 0, 30, 1, 2)
       IN  /\ srv' = r.srv
           /\ lastCall' = [kind |-> "SpawnProjectile", id |-> r.id, before |-> srv.entities]
    /\ nCalls' = nCalls + 1
    /\ UNCHANGED <<outsideGameplay, snap, nTicks, allocated>>

GpTick ==
    /\ nTicks < MaxTicks
    /\ \E qorder \in IterationOrders(DOMAIN srv.input_queues),
          eorder \in IterationOrders(Survivors(srv)) :
         LET r == tick(srv, qorder, eorder)
         IN  /\ srv' = r.srv
             /\ snap' = r.snap
             /\ lastCall' = [kind |-> "tick", before |-> srv.entities]
    /\ nTicks' = nTicks + 1
    /\ UNCHANGED <<outsideGameplay, nCalls, allocated>>

NextGameplay ==
    \/ \E source \in IdChoices, target \in IdChoices, amount \in DamageChoices :
          GpApplyDamage(source, target, amount)
    \/ GpSpawn
    \/ GpTick

SpecGameplay == InitGameplay /\ [][NextGameplay]_vars

---------------------------------------------------------------------------
(* SpecApi: one DemoServer on which GetPosition, SetMovement, ApplyDamage,  *)
(* ApplyKnockback and SpawnProjectile are called between ticks, directly   *)
(* (the Engine_ functions, as main() calls them) and through the Lua       *)
(* bridge, while a client sends an input.                                  *)

InitApi == QueueIdle /\ ServerFresh /\ SecondIdle /\ ConcIdle /\ CodecIdle /\ MainIdle /\ PacketIdle /\ ReaderIdle /\ InputsIdle

\* ids passed as target: the character, the first projectile id, an id no
\* entity has
ApiIds == {FIRST_ENTITY_ID, FIRST_ENTITY_ID + 1, 7}
\* directions of knockbacks and projectiles: a unit vector and the zero vector
ApiDirs == { <<-1, 0>>, <<0, 0>> }
\* lifetimes of projectiles, in ticks
ApiLives == {0, 2}
\* the caller: the Engine_ function directly, or the Lua bridge
Callers == {"engine", "lua"}

\* the observation of a call: what was called and how, the server before it
Called(kind, via, target, ok) ==
    [kind |-> kind, via |-> via, target |-> target, ok |-> ok, server |-> srv]

ApiGetPosition(id) ==
    /\ nCalls < MaxCalls
    /\ LET r == GetPosition(srv, id, -1, -1)
       IN  lastCall' = [kind |-> "GetPosition", via |-> "engine", target |-> id,
                       ok |-> r.ok, server |-> srv, x |-> r.x, y |-> r.y]
    /\ nCalls' = nCalls + 1
    /\ UNCHANGED <<outsideGameplay, srv, snap, nTicks, allocated>>

ApiSetMovement(id) ==
    /\ nCalls < MaxCalls
    /\ LET r == SetMovement(srv, id, 60, -30)
       IN  /\ srv' = r.srv
           /\ lastCall' = Called("SetMovement", "engine", id, r.ok)
    /\ nCalls' = nCalls + 1
    /\ UNCHANGED <<outsideGameplay, snap, nTicks, allocated>>

ApiApplyDamage(id) ==
    /\ nCalls < MaxCalls
    /\ LET r == ApplyDamage(srv, FIRST_ENTITY_ID, id, 30)
       IN  /\ srv' = r.srv
           /\ lastCall' = Called("ApplyDamage", "engine", id, r.ok)
    /\ nCalls' = nCalls + 1
    /\ UNCHANGED <<outsideGameplay, snap, nTicks, allocated>>

\* a knockback of force 5 from entity 1002
ApiApplyKnockback(via, id, dir) ==
    /\ nCalls < MaxCalls
    /\ LET r == IF via = "lua"
                THEN l_ApplyKnockback(srv, FIRST_ENTITY_ID + 1, id, dir[1], dir[2], 5)
                ELSE ApplyKnockback(srv, FIRST_ENTITY_ID + 1, id, dir[1], dir[2], 5)
       IN  /\ srv' = r.srv
           /\ lastCall' = [kind |-> "ApplyKnockback", via |-> via, target |-> id,
                           ok |-> r.ok, server |-> srv, dir |-> dir, force |-> 5]
    /\ nCalls' = nCalls + 1
    /\ UNCHANGED <<outsideGameplay, snap, nTicks, allocated>>

\* a projectile of speed 30 spawned at (0, 0) by a caster that is no entity
ApiSpawnProjectile(via, dir, life) ==
    /\ nCalls < MaxCalls
    /\ LET r == IF via = "lua"
                THEN l_SpawnProjectile(srv, 7, 0, 0, dir[1], dir[2], 30, 1, life)
                ELSE SpawnProjectile(srv, 0, 0, dir[1], dir[2], 30, 1, life)
       IN  /\ srv' = r.srv
           /\ allocated' = Append(allocated, r.id)
           /\ lastCall' = [kind |-> "SpawnProjectile", via |-> via, target |-> r.id,
                           ok |-> TRUE, server |-> srv, dir |-> dir, speed |-> 30]
    /\ nCalls' = nCalls + 1
    /\ UNCHANGED <<outsideGameplay, snap, nTicks>>

\* client 1 sends an input for the tick after the current one
ApiReceiveInput ==
    /\ nCalls < MaxCalls
    /\ LET in == ClientInput(1, nCalls + 1, srv.server_tick + 1, 127, 0)
           r == receiveInput(srv, in)
       IN  /\ srv' = r.srv
           /\ lastCall' = Called("receiveInput", "engine", 0, r.ok)
    /\ nCalls' = nCalls + 1
    /\ UNCHANGED <<outsideGameplay, snap, nTicks, allocated>>

ApiTick ==
    /\ nTicks < MaxTicks
    /\ \E qorder \in IterationOrders(DOMAIN srv.input_queues),
          eorder \in IterationOrders(Survivors(srv)) :
         LET r == tick(srv, qorder, eorder)
         IN  /\ srv' = r.srv
             /\ snap' = r.snap
             /\ lastCall' = [kind |-> "tick", via |-> "engine", target |-> 0, ok |-> TRUE,
                             server |-> srv, log |-> r.log]
    /\ nTicks' = nTicks + 1
    /\ UNCHANGED <<outsideGameplay, nCalls, allocated>>

NextApi ==
    \/ \E id \in ApiIds : ApiGetPosition(id)
    \/ \E id \in ApiIds : ApiSetMovement(id)
    \/ \E id \in ApiIds : ApiApplyDamage(id)
    \/ \E via \in Callers, id \in ApiIds, dir \in ApiDirs : ApiApplyKnockback(via, id, dir)
    \/ \E via \in Callers, dir \in ApiDirs, life \in ApiLives : ApiSpawnProjectile(via, dir, life)
    \/ ApiReceiveInput
    \/ ApiTick

SpecApi == InitApi /\ [][NextApi]_vars

---------------------------------------------------------------------------
(* SpecMain: main() (deterministic_sim.cpp:495-557).  The server is         *)
(* constructed, a projectile is spawned and entity 1001 knocked back, ten  *)
(* inputs are queued for client 1, and forty ticks are run; each tick's    *)
(* snapshot is serialized in full and as a delta against the snapshot sent *)
(* last.  A tick is taken in two steps: the call of tick(), then the loop  *)
(* that prints and serializes.                                             *)

INPUT_TICKS == 10      \* for (t = start_tick; t < start_tick + 10; ++t)
RUN_TICKS == 40        \* for (i = 0; i < 40; ++i)

InitMain == QueueIdle /\ ServerFresh /\ SecondIdle /\ ConcIdle /\ CodecIdle /\ MainIdle /\ PacketIdle /\ ReaderIdle /\ InputsIdle

\* Engine_SpawnProjectile(1001, 0.0, 0.0, 1.0, 0.0, 10.0, 0.5, 2.0, "explode");
\* Engine_ApplyKnockback(proj_id, 1001, -1.0, 0.0, 5.0, 0.2);
\* a life_time of 2.0 s is 60 ticks
MainApiTest ==
    /\ demo.pc = "api"
    /\ LET proj == SpawnProjectile(demo.server, 0, 0, 1, 0, 10, 1, 2 * SERVER_TICK_RATE)
           kb == ApplyKnockback(proj.srv, proj.id, 1001, -1, 0, 5)
       IN  demo' = [demo EXCEPT !.server = kb.srv, !.pc = "inputs", !.t = 0]
    /\ UNCHANGED <<outsideMain, deltaSizes>>

\* one iteration of the loop that queues the synthetic inputs of client 1
MainReceiveInput ==
    /\ demo.pc = "inputs"
    /\ demo.t < INPUT_TICKS
    /\ LET in == ClientInput(1, demo.seq, demo.t, 127, 0)
       IN  demo' = [demo EXCEPT !.server = receiveInput(@, in).srv,
                                !.seq = @ + 1,
                                !.t = @ + 1,
                                !.pc = IF demo.t + 1 < INPUT_TICKS THEN "inputs" ELSE "run"]
    /\ UNCHANGED <<outsideMain, deltaSizes>>

\* if (has_last) server.updatePrevBeforeFromSnapshot(last_sent_snap);
\* Snapshot snap = server.tick();
MainTick ==
    /\ demo.pc = "run"
    /\ demo.i < RUN_TICKS
    /\ LET before == IF demo.has_last
                     THEN updatePrevBeforeFromSnapshot(demo.server, demo.last_sent_snap)
                     ELSE demo.server
       IN  \E qorder \in IterationOrders(DOMAIN before.input_queues),
              eorder \in IterationOrders(Survivors(before)) :
             LET r == tick(before, qorder, eorder)
             IN  demo' = [demo EXCEPT !.server = r.srv, !.snap = r.snap, !.pc = "print"]
    /\ UNCHANGED <<outsideMain, deltaSizes>>

\* the loop over snap.entities: its body prints the entity and, the closing
\* brace of the print loop coming only after them, also serializes the
\* snapshot and records it as the last one sent; every pass computes the
\* same bytes, and a snapshot without entities is neither serialized nor
\* recorded.  Then ++i.
MainSerialize ==
    /\ demo.pc = "print"
    /\ LET shown == demo.snap.entities # <<>>
           full_ == serializeFull(demo.snap)
           delta_ == serializeDelta(demo.snap, demo.server.prev_snapshot_map_before_tick)
       IN  /\ demo' = [demo EXCEPT
                          !.full = IF shown THEN full_ ELSE @,
                          !.delta = IF shown THEN delta_ ELSE @,
                          !.last_sent_snap = IF shown THEN demo.snap ELSE @,
                          !.has_last = IF shown THEN TRUE ELSE @,
                          !.i = @ + 1,
                          !.pc = IF demo.i + 1 < RUN_TICKS THEN "run" ELSE "done"]
           /\ deltaSizes' = IF shown
                            THEN MapPut(deltaSizes, demo.snap.server_tick, Len(delta_))
                            ELSE deltaSizes
    /\ UNCHANGED outsideMain

NextMain == MainApiTest \/ MainReceiveInput \/ MainTick \/ MainSerialize

SpecMain == InitMain /\ [][NextMain]_vars

---------------------------------------------------------------------------
(* SpecReader: a BufferReader (net/packets.h:60-84) over a wire buffer     *)
(* that may be truncated, read by a decoder that trusts the layout.        *)
(* Both bounds checks are assert() calls: in a build without NDEBUG a      *)
(* failed check ends the process by abort(); in a build with NDEBUG the    *)
(* check is compiled out and memcpy reads past the buffer, which is        *)
(* undefined behaviour: the bytes beyond are copied and the offset         *)
(* advances, or the access faults.                                         *)

\* BufferReader::BufferReader(const uint8_t* d, size_t s); touched is the number
\* of bytes from data on that some read has accessed, state tells whether the
\* process is still running
BufferReader(d, s, ndebug) ==
    [pc |-> "reader", data |-> d, size |-> s, offset |-> 0, ndebug |-> ndebug,
     state |-> "ready", touched |-> 0, nReads |-> 0,
     last |-> [kind |-> "none"]]

Max(a, b) == IF a > b THEN a ELSE b

\* assert(offset + n <= size): what a read of n bytes can end in
readOutcomes(r, n) ==
    IF r.offset + n <= r.size THEN {"value"}
    ELSE IF ~r.ndebug THEN {"abort"}
    ELSE {"overread", "fault"}

\* memcpy(dst, data + offset, n): the bytes copied; -1 stands for a byte
\* that is not part of the buffer
copiedBytes(r, n) ==
    [i \in 1..n |-> IF r.offset + i <= r.size THEN r.data[r.offset + i] ELSE -1]

\* T BufferReader::read<T>() with sizeof(T) = n, and void readRaw(dst, n):
\* the assert, the memcpy, offset += n
readBytes(r, kind, n, outcome) ==
    LET seen == [kind |-> kind, n |-> n, offset |-> r.offset, outcome |-> outcome,
                 bytes |-> IF outcome \in {"value", "overread"}
                           THEN copiedBytes(r, n) ELSE <<>>]
    IN  IF outcome = "abort"
        THEN [r EXCEPT !.state = "aborted", !.nReads = @ + 1, !.last = seen]
        ELSE IF outcome = "fault"
        THEN [r EXCEPT !.state = "faulted", !.nReads = @ + 1, !.last = seen,
                       !.touched = Max(@, Max(r.offset, r.size) + 1)]
        ELSE [r EXCEPT !.offset = @ + n, !.nReads = @ + 1, !.last = seen,
                       !.touched = Max(@, r.offset + n)]

\* the header of a snapshot of tick 258 listing one entity, as serializeFull
\* and serializeDelta write it
WireHeader == write_u32(write_u32(<<>>, 258), 1)

\* sizeof(T) of the reads: uint8_t, uint16_t, uint32_t
ReadSizes == {1, 2, 4}
\* byte counts handed to readRaw
RawSizes == {0, 3}

\* the buffer received is the header cut off after any number of bytes
InitReader ==
    /\ \E len \in 0..Len(WireHeader), ndebug \in BOOLEAN :
          reader = BufferReader(SubSeq(WireHeader, 1, len), len, ndebug)
    /\ QueueIdle /\ ServerFresh /\ SecondIdle /\ ConcIdle /\ CodecIdle
    /\ MainIdle /\ PacketIdle /\ InputsIdle

ReaderRead(n) ==
    /\ reader.state = "ready"
    /\ reader.nReads < MaxReads
    /\ \E outcome \in readOutcomes(reader, n) :
          reader' = readBytes(reader, "read", n, outcome)
    /\ UNCHANGED outsideReader

ReaderReadRaw(bytes) ==
    /\ reader.state = "ready"
    /\ reader.nReads < MaxReads
    /\ \E outcome \in readOutcomes(reader, bytes) :
          reader' = readBytes(reader, "readRaw", bytes, outcome)
    /\ UNCHANGED outsideReader

NextReader ==
    \/ \E n \in ReadSizes : ReaderRead(n)
    \/ \E bytes \in RawSizes : ReaderReadRaw(bytes)

SpecReader == InitReader /\ [][NextReader]_vars

---------------------------------------------------------------------------
(* SpecInputs: receiveInput and tick() on one server, every receiveInput   *)
(* call logged with the server tick at which it was made.  The run starts  *)
(* on the constructed server, or on a server that has run tick 0 and has   *)
(* then accepted 255 inputs of client 1 that target tick 0.                *)
(* SpecInputsFair adds that tick() keeps being called, as the simulation   *)
(* loop does.                                                              *)

\* the inputs of client 1 for tick 0 that arrive after tick 0 has run
StaleInput(i) == ClientInput(1, i, 0, 127, 0)

\* the server after tick() and then n accepted receiveInput(StaleInput(i))
StaleServer(n) ==
    [tick(NewServer, <<>>, <<FIRST_ENTITY_ID>>).srv EXCEPT
        !.input_queues = MapPut(EmptyMap, 1, [i \in 1..n |-> StaleInput(i)])]

\* what those n calls leave in the log
StaleLog(n) ==
    [i \in 1..n |-> [in |-> StaleInput(i), at |-> 1, size |-> i - 1, ok |-> TRUE,
                     drained |-> <<>>]]

InitInputs ==
    /\ \/ /\ srv = NewServer
          /\ nTicks = 0
          /\ inputLog = <<>>
       \/ /\ srv = StaleServer(MAX_CLIENT_INPUT_QUEUE - 1)
          /\ nTicks = 1
          /\ inputLog = StaleLog(MAX_CLIENT_INPUT_QUEUE - 1)
    /\ snap = NoSnap
    /\ tickLog = <<>>
    /\ nCalls = 0
    /\ spawnLog = EmptyMap
    /\ seenIn = EmptyMap
    /\ fric = [v0 |-> <<0, 0>>, k |-> 0]
    /\ lastCall = NoOp
    /\ allocated = <<FIRST_ENTITY_ID>>
    /\ QueueIdle /\ SecondIdle /\ ConcIdle /\ CodecIdle
    /\ MainIdle /\ PacketIdle /\ ReaderIdle

\* receiveInput(in) for an input of this client and target tick
InReceive(client, t) ==
    /\ nCalls < MaxCalls
    /\ LET in == ClientInput(client, Len(inputLog) + 1, t, 127, 0)
           r == receiveInput(srv, in)
           size == IF client \in DOMAIN srv.input_queues
                   THEN Len(srv.input_queues[client]) ELSE 0
       IN  /\ srv' = r.srv
           /\ inputLog' = Append(inputLog,
                                 [in |-> in, at |-> srv.server_tick, size |-> size,
                                  ok |-> r.ok, drained |-> <<>>])
    /\ nCalls' = nCalls + 1
    /\ UNCHANGED <<outsideInputs, snap, tickLog, nTicks>>

\* tick(); every logged input found in a drained batch gets the tick noted
InTick ==
    /\ nTicks < MaxTicks
    /\ \E qorder \in IterationOrders(DOMAIN srv.input_queues),
          eorder \in IterationOrders(Survivors(srv)) :
         \E r \in {tick(srv, qorder, eorder)} :
         \E batch \in {UNION { { r.log[i].inputs[j] : j \in DOMAIN r.log[i].inputs } :
                                i \in DOMAIN r.log }} :
             /\ srv' = r.srv
             /\ snap' = r.snap
             /\ tickLog' = r.log
             /\ inputLog' = [k \in DOMAIN inputLog |->
                               IF inputLog[k].in \in batch
                               THEN [inputLog[k] EXCEPT
                                        !.drained = Append(@, srv.server_tick)]
                               ELSE inputLog[k]]
    /\ nTicks' = nTicks + 1
    /\ UNCHANGED <<outsideInputs, nCalls>>

NextInputs ==
    \/ \E client \in Clients, t \in TargetTicks : InReceive(client, t)
    \/ InTick

SpecInputs == InitInputs /\ [][NextInputs]_vars

\* A step that is a call of tick().  tick() has no precondition, so InTick is
\* enabled exactly when nTicks < MaxTicks, and it is the only action that
\* changes nTicks: within SpecInputs the steps of TickTaken are the steps of
\* InTick, and both are enabled in the same states.
TickTaken == nTicks < MaxTicks /\ nTicks' = nTicks + 1

\* the simulation loop keeps calling tick()
SpecInputsFair == SpecInputs /\ WF_nTicks(TickTaken)

---------------------------------------------------------------------------
(* SpecPacket: ClientInputPacket (net/packets.h:110-127): a uint8_t        *)
(* inputCount and the array uint8_t inputs[256], filled by addInput.  The  *)
(* run starts on the constructed packet or on one that 254 addInput calls  *)
(* have filled.                                                            *)

\* uint8_t arithmetic: the value is kept modulo 256
U8(x) == x % 256

\* ClientInputPacket::ClientInputPacket(): inputCount(0); the array is not
\* initialised, -1 stands for a byte never written.  inputs[k + 1] models
\* the C++ element inputs[k]; added lists the arguments of the calls made
\* on the packet and nAdds counts the calls explored.
ClientInputPacket ==
    [pc |-> "packet", inputCount |-> 0, inputs |-> [k \in 1..256 |-> -1],
     added |-> <<>>, nAdds |-> 0]

\* void ClientInputPacket::addInput(uint8_t i):
\* if (inputCount < 256) inputs[inputCount++] = i;  with inputCount a uint8_t
addInput(p, i) ==
    IF p.inputCount < 256
    THEN [p EXCEPT !.inputs[p.inputCount + 1] = i,
                   !.inputCount = U8(p.inputCount + 1),
                   !.added = Append(@, i)]
    ELSE [p EXCEPT !.added = Append(@, i)]

\* the byte the k-th call of the initial fill passes
FillByte(k) == U8(3 * k)

\* the packet after addInput(FillByte(1)), ..., addInput(FillByte(n)), n <= 255
FilledPacket(n) ==
    [ClientInputPacket EXCEPT
        !.inputCount = n,
        !.inputs = [k \in 1..256 |-> IF k <= n THEN FillByte(k) ELSE -1],
        !.added = [k \in 1..n |-> FillByte(k)]]

\* the bytes passed to addInput
ByteChoices == {0, 7, 255}

InitPacket ==
    /\ packet \in {ClientInputPacket, FilledPacket(254)}
    /\ QueueIdle /\ ServerFresh /\ SecondIdle /\ ConcIdle /\ CodecIdle
    /\ MainIdle /\ ReaderIdle /\ InputsIdle

PacketAdd(i) ==
    /\ packet.nAdds < MaxAdds
    /\ packet' = [addInput(packet, i) EXCEPT !.nAdds = @ + 1]
    /\ UNCHANGED outsidePacket

NextPacket == \E i \in ByteChoices : PacketAdd(i)

SpecPacket == InitPacket /\ [][NextPacket]_vars

---------------------------------------------------------------------------
(* C1: push on a queue holding 256 entries returns false and leaves the    *)
(* queue as it was; on a shorter queue it returns true and appends the     *)
(* input at the back.                                                      *)
C1_PushBounded ==
    lastOp.kind = "push" =>
        IF Len(lastOp.before) >= 256
        THEN ~lastOp.ok /\ queue = lastOp.before
        ELSE lastOp.ok /\ queue = Append(lastOp.before, lastOp.in)

\* the 257th push: the queue held 256 entries and the push was refused
C1_Witness ==
    /\ lastOp.kind = "push"
    /\ Len(lastOp.before) = 256
    /\ ~lastOp.ok
    /\ Len(queue) = 256

(* C2: popForTick(t) returns exactly the entries with target_tick = t in   *)
(* arrival order and leaves exactly the others, in their relative order.   *)
C2_PopForTickPartitions ==
    lastOp.kind = "pop" =>
        LET IsT(c) == c.target_tick = lastOp.tick
            NotT(c) == c.target_tick # lastOp.tick
        IN  /\ lastOp.res = SelectSeq(lastOp.before, IsT)
            /\ queue = SelectSeq(lastOp.before, NotT)

\* a drain that returned several entries and kept several, interleaved in the queue
C2_Witness ==
    /\ lastOp.kind = "pop"
    /\ Len(lastOp.res) >= 2
    /\ Len(queue) >= 2
    /\ Len(lastOp.before) >= 4
    /\ lastOp.before[1].target_tick # lastOp.tick
    /\ lastOp.before[2].target_tick = lastOp.tick
    /\ lastOp.before[3].target_tick # lastOp.tick

(* C3: two runs given the same calls return, at every tick, snapshots with *)
(* the same tick, the same entities in the same order and the same field   *)
(* values.                                                                 *)
C3_RunsAgree == snap2 = snap

(* C4: every snapshot returned by tick() lists its entities in strictly    *)
(* ascending order of id.                                                  *)
C4_SnapshotAscending ==
    \A i, j \in DOMAIN snap.entities :
        i < j => snap.entities[i].id < snap.entities[j].id

(* C5: after a drained batch is applied, the velocity of the controlled    *)
(* entity is (MAX_SPEED_FIXED_PER_TICK * d) / 127, truncated toward zero,  *)
(* for the last input of the batch with a non-zero direction; a batch      *)
(* without one leaves the velocity as it was.                              *)
TowardZero(a, b) == IF a < 0 THEN -((-a) \div b) ELSE a \div b

C5_LastNonZeroInputWins ==
    \A i \in DOMAIN tickLog :
        LET entry == tickLog[i]
            moving == SelectSeq(entry.inputs, NonZeroMove)
        IN  entry.inputs # <<>> =>
              /\ entry.applied
              /\ IF moving = <<>>
                 THEN entry.vel = entry.before
                 ELSE LET last == moving[Len(moving)]
                      IN  entry.vel = << TowardZero(166 * last.move_dx, 127),
                                         TowardZero(166 * last.move_dy, 127) >>

\* a batch of two inputs with different non-zero directions: the second one decides
C5_Witness ==
    \E i \in DOMAIN tickLog :
        /\ Len(tickLog[i].inputs) = 2
        /\ tickLog[i].inputs[1].move_dx = 127
        /\ tickLog[i].inputs[2].move_dx = -128
        /\ tickLog[i].inputs[2].move_dy = 20
        /\ tickLog[i].vel = <<-167, 26>>

(* C6: a projectile spawned with a lifetime of N = L*R >= 1 ticks when the *)
(* server tick is s is listed in the snapshots of ticks s .. s+N-1 and in  *)
(* no snapshot from tick s+N on.                                           *)
C6_ProjectileLifetime ==
    \A id \in DOMAIN spawnLog :
        spawnLog[id].life >= 1 =>
            \A t \in spawnLog[id].tick .. (srv.server_tick - 1) :
                (t \in seenIn[id]) <=> (t < spawnLog[id].tick + spawnLog[id].life)

(* C7: with no further input, each velocity component v0 of the character  *)
(* reaches exactly 0 within ceil(|v0| / FRICTION_PER_TICK) ticks, never    *)
(* grows in absolute value, never changes sign, and then stays 0.          *)
CeilDiv(a, b) == (a + b - 1) \div b

FrictionHolds(v0, v, k) ==
    /\ k >= CeilDiv(Abs(v0), 25) => v = 0
    /\ v0 >= 0 => (0 <= v /\ v <= v0)
    /\ v0 <= 0 => (v0 <= v /\ v <= 0)
    /\ Abs(v) = IF Abs(v0) > 25 * k THEN Abs(v0) - 25 * k ELSE 0

C7_FrictionConverges ==
    LET e == srv.entities[1001]
    IN  /\ FrictionHolds(fric.v0[1], e.vel_x, fric.k)
        /\ FrictionHolds(fric.v0[2], e.vel_y, fric.k)

\* v0 = (-167, 26): after ceil(26/25) = 2 ticks y is 0 while x is still decaying
C7_Witness ==
    /\ fric.v0 = <<-167, 26>>
    /\ fric.k = 2
    /\ srv.entities[1001].vel_x = -117
    /\ srv.entities[1001].vel_y = 0

(* C8: the k-th call of tick() (k from 0) returns a snapshot of tick k,    *)
(* drains exactly the inputs whose target_tick is k, and leaves            *)
(* server_tick at k + 1.                                                   *)
C8_TickCounts ==
    /\ srv.server_tick = nTicks
    /\ nTicks > 0 =>
         /\ snap.server_tick = nTicks - 1
         /\ \A i \in DOMAIN tickLog :
              /\ \A j \in DOMAIN tickLog[i].inputs :
                    tickLog[i].inputs[j].target_tick = nTicks - 1
              /\ \A j \in DOMAIN tickLog[i].kept :
                    tickLog[i].kept[j].target_tick # nTicks - 1

\* the third call: it returned the snapshot of tick 2 and drained an input of tick 2
C8_Witness ==
    /\ nTicks = 3
    /\ snap.server_tick = 2
    /\ srv.server_tick = 3
    /\ \E i \in DOMAIN tickLog : tickLog[i].inputs # <<>> /\ tickLog[i].kept # <<>>

(* C9: with push running concurrently with popForTick, no accepted input   *)
(* is lost or duplicated: once the drain has returned, every input for     *)
(* which push returned true is in the drained batch or in the queue,       *)
(* exactly once; and the queue never holds more than 256 entries.          *)
Occurrences(q, x) == Cardinality({ i \in DOMAIN q : q[i] = x })

C9_ConcurrentPushSafe ==
    /\ Len(queue) <= 256
    /\ cons.pc = "returned" =>
         \A in \in accepted : Occurrences(cons.res \o queue, in) = 1

(* C10: for snapshots with equal id sets, applying the decoded delta of    *)
(* (S_ref, S_cur) onto S_ref gives S_cur: the same tick, the same          *)
(* entities, and for each the same value of every encoded field.           *)
Encoded(e) == << e.id, e.pos_x, e.pos_y, e.vel_x, e.vel_y, e.health, e.flags >>

C10_DeltaRoundTrip ==
    (codecPc = "applied" /\ Ids(refSnap) = Ids(curSnap)) =>
        /\ decoded.ok
        /\ decoded.tick = curSnap.server_tick
        /\ DOMAIN decoded.entities = Ids(curSnap)
        /\ \A i \in DOMAIN curSnap.entities :
              Encoded(decoded.entities[curSnap.entities[i].id]) = Encoded(curSnap.entities[i])

\* two entities in both snapshots, one unchanged and left out of the delta,
\* the other with some fields changed, among them the most negative int32_t
C10_Witness ==
    /\ codecPc = "applied"
    /\ Ids(refSnap) = CodecIds
    /\ Ids(curSnap) = CodecIds
    /\ decoded.ok
    /\ wire[5] = 1
    /\ Len(wire) = 8 + 5 + 4 + 1
    /\ decoded.entities[1001].pos_y = -2147483647 - 1
    /\ decoded.entities[1001].flags = 255
    /\ decoded.entities[1001].vel_x = 166

(* C11: decoding the bytes of serializeFull reconstructs the snapshot: the  *)
(* same tick and the same entities in the same order, each equal to the    *)
(* original under EntityState::operator==.                                 *)
C11_FullRoundTrip ==
    codecPc = "applied" =>
        /\ decodedFull.ok
        /\ decodedFull.tick = curSnap.server_tick
        /\ Len(decodedFull.entities) = Len(curSnap.entities)
        /\ \A i \in DOMAIN curSnap.entities :
              EntityEquals(decodedFull.entities[i], curSnap.entities[i])

(* C16: serializeFull of a snapshot of n entities is 8 + 25*n bytes: tick,  *)
(* n, then per entity in snapshot order id, pos_x, pos_y, vel_x, vel_y,     *)
(* health (4 bytes each) and flags (1 byte), least significant byte first. *)
C16_FullLayout ==
    codecPc # "start" =>
        LET n == Len(curSnap.entities)
            t == curSnap.server_tick
            U32(off, v) ==
                /\ full[off + 1] = v % 256
                /\ full[off + 2] = (v \div 256) % 256
                /\ full[off + 3] = (v \div 65536) % 256
                /\ full[off + 4] = (v \div 16777216) % 256
            \* the signed value of four bytes, least significant first
            I32(off) ==
                full[off + 1] + 256 * full[off + 2] + 65536 * full[off + 3]
                + 16777216 * (IF full[off + 4] > 127 THEN full[off + 4] - 256
                              ELSE full[off + 4])
        IN  /\ Len(full) = 8 + 25 * n
            /\ \A k \in DOMAIN full : full[k] \in 0..255
            /\ U32(0, t)
            /\ U32(4, n)
            /\ \A i \in 1..n :
                  LET e == curSnap.entities[i]
                      off == 8 + 25 * (i - 1)
                  IN  /\ U32(off, e.id)
                      /\ I32(off + 4) = e.pos_x
                      /\ I32(off + 8) = e.pos_y
                      /\ I32(off + 12) = e.vel_x
                      /\ I32(off + 16) = e.vel_y
                      /\ I32(off + 20) = e.health
                      /\ full[off + 25] = e.flags

\* a snapshot of tick 258 with two entities, the first with every field at
\* its other value: 58 bytes, the tick written as 2, 1, 0, 0
C16_Witness ==
    /\ codecPc = "encoded"
    /\ Len(curSnap.entities) = 2
    /\ curSnap.server_tick = 258
    /\ curSnap.entities[1].pos_y = -2147483647 - 1
    /\ curSnap.entities[1].vel_x = -1000
    /\ curSnap.entities[1].vel_y = 66051
    /\ Len(full) = 58
    /\ full[1] = 2 /\ full[2] = 1 /\ full[3] = 0 /\ full[4] = 0

\* Reading a delta buffer back, record by record, from the layout alone.
\* bytes of the fields a mask flags: 4 for each of bits 0..4, 1 for bit 5
MaskBytes(mask) ==
    4 * ((mask % 2) + ((mask \div 2) % 2) + ((mask \div 4) % 2)
         + ((mask \div 8) % 2) + ((mask \div 16) % 2))
    + ((mask \div 32) % 2)

\* the signed value of the four bytes at offset off, least significant first
WireI32(buf, off) ==
    buf[off + 1] + 256 * buf[off + 2] + 65536 * buf[off + 3]
    + 16777216 * (IF buf[off + 4] > 127 THEN buf[off + 4] - 256 ELSE buf[off + 4])

\* the records found from offset off to the end of the buffer
RECURSIVE WireRecords(_, _)
WireRecords(buf, off) ==
    IF off + 5 > Len(buf) THEN <<>>
    ELSE LET mask == buf[off + 5]
             rec == [off |-> off, id |-> WireI32(buf, off), mask |-> mask,
                     size |-> 5 + MaskBytes(mask)]
         IN  <<rec>> \o WireRecords(buf, off + rec.size)

RECURSIVE SumSizes(_)
SumSizes(recs) == IF recs = <<>> THEN 0 ELSE Head(recs).size + SumSizes(Tail(recs))

\* the six fields the change mask covers
SameSixFields(a, b) ==
    /\ a.pos_x = b.pos_x /\ a.pos_y = b.pos_y
    /\ a.vel_x = b.vel_x /\ a.vel_y = b.vel_y
    /\ a.health = b.health /\ a.flags = b.flags

\* the entity of the reference snapshot with this id
RefEntity(id) ==
    refSnap.entities[CHOOSE k \in DOMAIN refSnap.entities : refSnap.entities[k].id = id]

\* the entities of the current snapshot that are in the reference with the
\* same six fields
Unchanged ==
    { i \in DOMAIN curSnap.entities :
        /\ curSnap.entities[i].id \in Ids(refSnap)
        /\ SameSixFields(curSnap.entities[i], RefEntity(curSnap.entities[i].id)) }

(* C12: an entity of the current snapshot whose id is not in the reference *)
(* is written as one record of 26 bytes: id, mask 0x3F, then pos_x, pos_y,  *)
(* vel_x, vel_y, health and flags with the entity's current values.         *)
C12_NewEntityFullMask ==
    codecPc # "start" =>
        \A i \in DOMAIN curSnap.entities :
            LET e == curSnap.entities[i]
                recs == WireRecords(wire, 8)
                mine == { k \in DOMAIN recs : recs[k].id = e.id }
            IN  e.id \notin Ids(refSnap) =>
                    /\ Cardinality(mine) = 1
                    /\ \A k \in mine :
                          LET off == recs[k].off
                          IN  /\ recs[k].mask = 63
                              /\ recs[k].size = 26
                              /\ WireI32(wire, off + 5) = e.pos_x
                              /\ WireI32(wire, off + 9) = e.pos_y
                              /\ WireI32(wire, off + 13) = e.vel_x
                              /\ WireI32(wire, off + 17) = e.vel_y
                              /\ WireI32(wire, off + 21) = e.health
                              /\ wire[off + 26] = e.flags

\* entity 1001 is new to the receiver and holds both int32_t extremes
C12_Witness ==
    /\ codecPc = "encoded"
    /\ Ids(refSnap) = {1002}
    /\ Len(curSnap.entities) = 2
    /\ curSnap.entities[2].id = 1001
    /\ curSnap.entities[2].pos_x = 2147483647
    /\ curSnap.entities[2].pos_y = -2147483647 - 1
    /\ curSnap.entities[2].flags = 255

(* C13: an entity present in both snapshots with the same six fields has   *)
(* no record and is not counted: the delta holds exactly one record per     *)
(* other entity, and a delta against identical entities is the 8-byte      *)
(* header with entity_count 0.                                             *)
C13_UnchangedOmitted ==
    codecPc # "start" =>
        LET recs == WireRecords(wire, 8)
            written == { recs[k].id : k \in DOMAIN recs }
        IN  /\ \A i \in Unchanged : curSnap.entities[i].id \notin written
            /\ Len(recs) = Len(curSnap.entities) - Cardinality(Unchanged)
            /\ WireI32(wire, 4) = Len(curSnap.entities) - Cardinality(Unchanged)
            /\ Unchanged = DOMAIN curSnap.entities =>
                    /\ Len(wire) = 8
                    /\ WireI32(wire, 4) = 0

\* two entities, both as in the reference: the delta is the header alone
C13_Witness ==
    /\ codecPc = "encoded"
    /\ Len(curSnap.entities) = 2
    /\ Cardinality(Unchanged) = 2
    /\ curSnap.entities[1].flags = 255
    /\ Len(wire) = 8

(* C14: the u32 at bytes 4..7 of a delta is the number of records that     *)
(* follow it, and the length of the buffer is 8 plus the sum of the        *)
(* lengths of those records.                                               *)
C14_CountMatchesRecords ==
    codecPc # "start" =>
        LET recs == WireRecords(wire, 8)
        IN  /\ wire[5] + 256 * wire[6] + 65536 * wire[7] + 16777216 * wire[8] = Len(recs)
            /\ Len(wire) = 8 + SumSizes(recs)

\* a snapshot of two entities of which one is written
C14_Witness ==
    /\ codecPc = "encoded"
    /\ Len(curSnap.entities) = 2
    /\ Cardinality(Unchanged) = 1
    /\ wire[5] = 1
    /\ Len(wire) > 8

(* C15: every id written in a delta is an id of the current snapshot; an   *)
(* id that only the reference holds leaves no trace: the delta is the one  *)
(* computed against the reference without that id.                         *)
C15_RemovedNotWritten ==
    codecPc # "start" =>
        LET recs == WireRecords(wire, 8)
            ref == snapshotMap(refSnap.entities, 1, EmptyMap)
            kept == [id \in DOMAIN ref \cap Ids(curSnap) |-> ref[id]]
        IN  /\ \A k \in DOMAIN recs : recs[k].id \in Ids(curSnap)
            /\ Len(wire) = 8 + SumSizes(recs)
            /\ wire = serializeDelta(curSnap, kept)

\* the reference holds projectile 1002, the current snapshot only entity 1001
C15_Witness ==
    /\ codecPc = "encoded"
    /\ Ids(refSnap) = {1001, 1002}
    /\ Ids(curSnap) = {1001}
    /\ Len(wire) > 8

(* C20: the health of every entity is >= 0 in every reachable state, and    *)
(* ApplyDamage on a known target returns true and sets its health to       *)
(* max(health - amount, 0), whatever source_id is, leaving every other     *)
(* field and entity as it was.                                             *)
C20_HealthClamped ==
    /\ \A id \in DOMAIN srv.entities : srv.entities[id].health >= 0
    /\ (lastCall.kind = "ApplyDamage" /\ lastCall.target \in DOMAIN lastCall.before) =>
          LET old == lastCall.before[lastCall.target]
              left == old.health - lastCall.amount
          IN  /\ lastCall.ok
              /\ srv.entities =
                    [lastCall.before EXCEPT
                        ![lastCall.target] =
                            [old EXCEPT !.health = IF left > 0 THEN left ELSE 0]]

\* damage of 150 from a source that is no entity, on the character at health
\* 100: the call returned true and the health is 0
C20_Witness ==
    /\ lastCall.kind = "ApplyDamage"
    /\ lastCall.source \notin DOMAIN lastCall.before
    /\ lastCall.target = 1001
    /\ lastCall.amount = 150
    /\ lastCall.before[1001].health = 100
    /\ lastCall.ok
    /\ srv.entities[1001].health = 0

\* the demo run has serialized the snapshot of tick t and not yet run the next
Serialized(t) ==
    /\ demo.pc \in {"run", "done"}
    /\ demo.has_last
    /\ demo.last_sent_snap.server_tick = t

\* the state of entity `id` in a snapshot that lists it
EntityIn(shot, id) ==
    shot.entities[CHOOSE k \in DOMAIN shot.entities : shot.entities[k].id = id]

C18_VelocityAtMaxSpeed ==
    (demo.pc = "print" /\ demo.snap.server_tick = 9) =>
        /\ EntityIn(demo.snap, 1001).vel_x = 166
        /\ EntityIn(demo.snap, 1001).vel_y = 0

(* C18, as the code has it: in each snapshot of ticks 0..9 entity 1001 has *)
(* x velocity 141, the 166 its input set less the 25 the same tick's       *)
(* friction took, y velocity 0, and a position advanced by 166 per tick.   *)
C18_VelocityMaxLessFriction ==
    (demo.pc = "print" /\ demo.snap.server_tick \in 0..9) =>
        LET e == EntityIn(demo.snap, 1001)
        IN  /\ e.vel_x = 141
            /\ e.vel_y = 0
            /\ e.pos_x = 166 * (demo.snap.server_tick + 1)
            /\ e.pos_y = 0

\* the snapshot of tick 9: the last input has been applied
C18_Witness ==
    /\ demo.pc = "print"
    /\ demo.snap.server_tick = 9
    /\ demo.server.input_queues[1] = <<>>
    /\ EntityIn(demo.snap, 1001).vel_x = 141
    /\ EntityIn(demo.snap, 1001).pos_x = 1660

(* C19: in the demo run, over ticks 10..39 the delta size never grows from *)
(* one tick to the next, and the delta is the 8-byte header alone once the *)
(* velocity of entity 1001 is zero and its position is that of the         *)
(* previous snapshot.                                                      *)
C19_DeltaShrinksToHeader ==
    /\ \A t \in 11..39 :
          (t \in DOMAIN deltaSizes /\ t - 1 \in DOMAIN deltaSizes) =>
              deltaSizes[t] <= deltaSizes[t - 1]
    /\ \A t \in 10..39 :
          (/\ Serialized(t)
           /\ 1001 \in DOMAIN demo.server.prev_snapshot_map_before_tick
           /\ LET e == EntityIn(demo.last_sent_snap, 1001)
                  ref == demo.server.prev_snapshot_map_before_tick[1001]
              IN  /\ e.vel_x = 0 /\ e.vel_y = 0
                  /\ e.pos_x = ref.pos_x /\ e.pos_y = ref.pos_y)
          => Len(demo.delta) = 8

(* C21: GetPosition, SetMovement, ApplyDamage and ApplyKnockback called    *)
(* with an id that no entity has return false and leave the whole server   *)
(* (entity store, input queues, tick counter) as it was; GetPosition also  *)
(* leaves the caller's x and y alone.                                      *)
C21_UnknownIdRejected ==
    (/\ lastCall.kind \in {"GetPosition", "SetMovement", "ApplyDamage", "ApplyKnockback"}
     /\ lastCall.target \notin DOMAIN lastCall.server.entities)
    => /\ ~lastCall.ok
       /\ srv = lastCall.server
       /\ lastCall.kind = "GetPosition" => (lastCall.x = -1 /\ lastCall.y = -1)

\* SetMovement on id 7 while an input of client 1 is queued: refused
C21_Witness ==
    /\ lastCall.kind = "SetMovement"
    /\ lastCall.target = 7
    /\ ~lastCall.ok
    /\ 1 \in DOMAIN srv.input_queues
    /\ Len(srv.input_queues[1]) = 1

(* C22: the ids handed out are 1001 for the first character and then       *)
(* strictly increasing, so no id is handed out twice, a removed one        *)
(* included; every live entity is stored under its own id, which is one of *)
(* the ids handed out.                                                     *)
C22_IdsMonotonic ==
    /\ allocated[1] = 1001
    /\ \A i, j \in DOMAIN allocated : i < j => allocated[i] < allocated[j]
    /\ \A id \in DOMAIN srv.entities :
          /\ srv.entities[id].id = id
          /\ \E i \in DOMAIN allocated : allocated[i] = id

\* projectile 1002 has expired and been removed; the next spawn returned 1003
C22_Witness ==
    /\ lastCall.kind = "SpawnProjectile"
    /\ allocated = <<1001, 1002, 1003>>
    /\ DOMAIN srv.entities = {1001, 1003}

(* C23: after a tick, no entity left in the store and none listed in the   *)
(* returned snapshot has lifetime_ticks = 0: an entity whose lifetime is 0 *)
(* when its simulation step ends is removed in that tick, before the       *)
(* snapshot is built.                                                      *)
C23_ExpiredRemoved ==
    lastCall.kind = "tick" =>
        /\ \A id \in DOMAIN srv.entities : srv.entities[id].lifetime_ticks # 0
        /\ \A i \in DOMAIN snap.entities : snap.entities[i].lifetime_ticks # 0
        /\ \A id \in DOMAIN lastCall.server.entities :
              lastCall.server.entities[id].lifetime_ticks \in {0, 1} =>
                  /\ id \notin DOMAIN srv.entities
                  /\ \A i \in DOMAIN snap.entities : snap.entities[i].id # id

\* a projectile with one tick left went into the tick and is gone after it
C23_Witness ==
    /\ lastCall.kind = "tick"
    /\ 1002 \in DOMAIN lastCall.server.entities
    /\ lastCall.server.entities[1002].lifetime_ticks = 1
    /\ 1002 \notin DOMAIN srv.entities
    /\ Len(snap.entities) = 1

(* C24: a knockback of non-zero force with a zero direction changes the    *)
(* velocity of its target, and a projectile of non-zero speed spawned with *)
(* a zero direction gets a non-zero velocity (a default direction stands   *)
(* in for the zero vector).                                                *)
C24_ZeroDirectionDefault ==
    /\ (/\ lastCall.kind = "ApplyKnockback"
        /\ lastCall.dir = <<0, 0>>
        /\ lastCall.ok)
       => LET old == lastCall.server.entities[lastCall.target]
              new == srv.entities[lastCall.target]
          IN  <<new.vel_x, new.vel_y>> # <<old.vel_x, old.vel_y>>
    /\ (/\ lastCall.kind = "SpawnProjectile"
        /\ lastCall.dir = <<0, 0>>)
       => LET new == srv.entities[lastCall.target]
          IN  <<new.vel_x, new.vel_y>> # <<0, 0>>

(* C27: a tick leaves the velocity of every Projectile as it was and moves *)
(* each velocity component of every Character toward zero by 25; the       *)
(* position advances by the velocity the entity had after the tick's       *)
(* inputs and before friction; of the other fields only a positive         *)
(* lifetime changes, by -1.                                                *)
C27_FrictionOnlyOnCharacters ==
    lastCall.kind = "tick" =>
        \A id \in DOMAIN srv.entities :
            LET old == lastCall.server.entities[id]
                new == srv.entities[id]
                log == lastCall.log
                v == IF id = 1001 /\ log # <<>>
                     THEN log[Len(log)].vel
                     ELSE <<old.vel_x, old.vel_y>>
                Slowed(c) == IF c > 25 THEN c - 25 ELSE IF c < -25 THEN c + 25 ELSE 0
            IN  /\ new.pos_x = old.pos_x + v[1]
                /\ new.pos_y = old.pos_y + v[2]
                /\ new.type = old.type
                /\ new.type = "Projectile" => (new.vel_x = v[1] /\ new.vel_y = v[2])
                /\ new.type = "Character" =>
                      (new.vel_x = Slowed(v[1]) /\ new.vel_y = Slowed(v[2]))
                /\ new.lifetime_ticks =
                      IF old.lifetime_ticks > 0 THEN old.lifetime_ticks - 1
                      ELSE old.lifetime_ticks
                /\ new.id = old.id /\ new.health = old.health
                /\ new.radius = old.radius /\ new.flags = old.flags

\* a tick with a moving projectile and a moving character in the store
C27_Witness ==
    /\ lastCall.kind = "tick"
    /\ DOMAIN srv.entities = {1001, 1002}
    /\ srv.entities[1002].vel_x = -1000
    /\ srv.entities[1002].pos_x = -1000
    /\ srv.entities[1001].vel_x = 1975
    /\ srv.entities[1001].vel_y = -975
    /\ srv.entities[1001].pos_x = 2000

\* the six masked fields of an entity, in the order of their mask bits
SixFields(e) == <<e.pos_x, e.pos_y, e.vel_x, e.vel_y, e.health, e.flags>>

\* the values a record holds after its mask, read from offset off: one value
\* for each set bit from bit k (0 = PosX) up to bit 5, four bytes each but
\* one byte for bit 5
RECURSIVE WireFields(_, _, _, _)
WireFields(buf, off, mask, k) ==
    IF k > 5 THEN <<>>
    ELSE IF (mask \div (2 ^ k)) % 2 = 0 THEN WireFields(buf, off, mask, k + 1)
    ELSE IF k = 5 THEN <<buf[off + 1]>>
    ELSE <<WireI32(buf, off)>> \o WireFields(buf, off + 4, mask, k + 1)

\* the current values of the fields that differ from the reference, in bit order
RECURSIVE DifferingValues(_, _, _)
DifferingValues(cur, ref, k) ==
    IF k > 6 THEN <<>>
    ELSE (IF cur[k] # ref[k] THEN <<cur[k]>> ELSE <<>>) \o DifferingValues(cur, ref, k + 1)

(* C26: for an entity that is in the reference and in the current snapshot *)
(* and differs from the reference, the delta holds one record: its mask    *)
(* has bit k (0 PosX, 1 PosY, 2 VelX, 3 VelY, 4 Health, 5 Flags) set       *)
(* exactly if that field differs, bits 6 and 7 clear, and after id and     *)
(* mask come exactly the differing fields, low bit first, with the         *)
(* current values.                                                         *)
C26_MaskBitsMatchChanges ==
    codecPc # "start" =>
        \A i \in DOMAIN curSnap.entities :
            LET e == curSnap.entities[i]
                recs == WireRecords(wire, 8)
                mine == { k \in DOMAIN recs : recs[k].id = e.id }
            IN  (e.id \in Ids(refSnap) /\ i \notin Unchanged) =>
                    /\ Cardinality(mine) = 1
                    /\ \A k \in mine :
                          LET cur == SixFields(e)
                              ref == SixFields(RefEntity(e.id))
                              mask == recs[k].mask
                          IN  /\ mask < 64
                              /\ \A b \in 0..5 :
                                    ((mask \div (2 ^ b)) % 2 = 1) <=> (cur[b + 1] # ref[b + 1])
                              /\ WireFields(wire, recs[k].off + 5, mask, 0)
                                    = DifferingValues(cur, ref, 1)

\* entity 1001 differs from the reference in pos_x, vel_y and flags only:
\* the record is id, mask 0x29 and those three fields
C26_Witness ==
    /\ codecPc = "encoded"
    /\ Ids(refSnap) = {1001}
    /\ Len(curSnap.entities) = 1
    /\ curSnap.entities[1].id = 1001
    /\ SixFields(refSnap.entities[1]) = <<0, -1, 166, -167, 100, 0>>
    /\ SixFields(curSnap.entities[1]) = <<2147483647, -1, 166, 66051, 100, 255>>
    /\ Len(wire) = 22
    /\ wire[13] = 41
    /\ wire[22] = 255

(* C30: whenever a tick applies inputs with a non-zero move to entity      *)
(* 1001, move_dx and move_dy being any signed 8-bit values, each component *)
(* of the velocity they set is at most MAX_SPEED_FIXED_PER_TICK in         *)
(* absolute value.                                                         *)
C30_VelocityWithinMaxSpeed ==
    \A i \in DOMAIN tickLog :
        (/\ tickLog[i].applied
         /\ \E j \in DOMAIN tickLog[i].inputs : NonZeroMove(tickLog[i].inputs[j]))
        => /\ tickLog[i].vel[1] <= MAX_SPEED_FIXED_PER_TICK
           /\ tickLog[i].vel[1] >= -MAX_SPEED_FIXED_PER_TICK
           /\ tickLog[i].vel[2] <= MAX_SPEED_FIXED_PER_TICK
           /\ tickLog[i].vel[2] >= -MAX_SPEED_FIXED_PER_TICK

(* C25: no read accesses a byte at or beyond the length given to the       *)
(* reader, and a read of n bytes with offset + n > size does not succeed:  *)
(* it copies nothing and leaves the offset where it was.                   *)
C25_ReadsStayInBuffer ==
    /\ reader.touched <= reader.size
    /\ reader.offset <= reader.size
    /\ (/\ reader.last.kind # "none"
        /\ reader.last.offset + reader.last.n > reader.size)
       => /\ reader.last.outcome \notin {"value", "overread"}
          /\ reader.last.bytes = <<>>
          /\ reader.offset = reader.last.offset

\* an input accepted while its target tick was still to come
Timely(e) == e.ok /\ e.in.target_tick >= e.at
\* an input accepted after its target tick had run
Stale(e) == e.ok /\ e.in.target_tick < e.at

\* the log entry of the k-th receiveInput call of the run
CallEntry(k) == inputLog[Len(inputLog) - nCalls + k]

(* C28: an input accepted by receiveInput while its target_tick is at      *)
(* least the server tick is drained by no tick other than the one whose    *)
(* server_tick equals its target_tick, at most once, and, ticks being run  *)
(* again and again, it is eventually drained by that tick.                 *)
C28_DrainedAtTargetTick ==
    /\ [](\A k \in DOMAIN inputLog :
            Timely(inputLog[k]) =>
                inputLog[k].drained \in {<<>>, <<inputLog[k].in.target_tick>>})
    /\ \A k \in 1..MaxCalls :
          (k <= nCalls /\ Timely(CallEntry(k)))
              ~> (k <= nCalls /\ CallEntry(k).drained = <<CallEntry(k).in.target_tick>>)

\* an input for tick 2 accepted before tick 0 ran, drained by tick 2 and applied
C28_Witness ==
    /\ nCalls = 1
    /\ inputLog = <<[in |-> ClientInput(1, 1, 2, 127, 0), at |-> 0, size |-> 0,
                     ok |-> TRUE, drained |-> <<2>>]>>
    /\ srv.server_tick = 3
    /\ tickLog # <<>>
    /\ tickLog[1].applied

(* C29: an input accepted with target_tick below the server tick is never  *)
(* drained or applied by a tick and stays in its client's queue; a push is *)
(* refused exactly when the queue already holds 256 inputs, so a queue of  *)
(* 256 such inputs refuses every further push.                             *)
C29_StaleInputsStay ==
    \A k \in DOMAIN inputLog :
        LET e == inputLog[k]
        IN  /\ e.ok <=> e.size < 256
            /\ Stale(e) =>
                  /\ e.drained = <<>>
                  /\ e.in.client_id \in DOMAIN srv.input_queues
                  /\ \E j \in DOMAIN srv.input_queues[e.in.client_id] :
                        srv.input_queues[e.in.client_id][j] = e.in
                  /\ \A i \in DOMAIN tickLog :
                        \A j \in DOMAIN tickLog[i].inputs : tickLog[i].inputs[j] # e.in

\* the queue of client 1 holds 256 inputs for tick 0, all accepted after
\* tick 0; two more ticks have run, and the last push was refused
C29_Witness ==
    /\ srv.server_tick = 3
    /\ DOMAIN srv.input_queues = {1}
    /\ Len(srv.input_queues[1]) = 256
    /\ \A j \in 1..256 : srv.input_queues[1][j].target_tick = 0
    /\ Len(inputLog) = 257
    /\ Stale(inputLog[256])
    /\ inputLog[257].in.client_id = 1
    /\ inputLog[257].size = 256
    /\ ~inputLog[257].ok

\* the number of bytes a packet can hold after n calls of addInput
Stored(n) == IF n <= 256 THEN n ELSE 256

(* C31: after n calls of addInput, inputCount is n for n up to 256 and     *)
(* stays at the capacity after that, and inputs[0..] hold the bytes of the *)
(* first 256 calls in call order: a call beyond the capacity changes       *)
(* neither the stored bytes nor the count.                                 *)
C31_CountMatchesStored ==
    LET n == Len(packet.added)
    IN  /\ packet.inputCount = Stored(n)
        /\ \A k \in 1..Stored(n) : packet.inputs[k] = packet.added[k]

====
